---- MODULE Spec2Model ----
\* The compose command of oc: the Proposal Synthesizer
\* (analyzeChangesForComposer and toDraftCommit), the Revision Loop of
\* composeCommand, and the Sequential Applier (applyAllDrafts, applyDraft) over
\* a model of the staging index and the history the git helpers act on.
EXTENDS Integers, Sequences, FiniteSets, TLC

\* ------------------------------------------------------------------ bounds

\* The changed paths of the working tree, in the order git lists them.
PathOrder == <<"x", "y">>
Paths == {PathOrder[n] : n \in 1..Len(PathOrder)}

\* The size of the largest collaborator reply: its number of drafts plus the
\* number of file references in them.
MaxReplySize == 4

\* The id and the message the collaborator gives the k-th draft of a reply.
ReplyIds == <<"1", "2", "3", "4", "5", "6">>
ReplyMessages == <<"feat: a", "fix: b", "docs: c", "test: d", "perf: e", "style: f">>
\* The message a text accepted by the edit prompt stores.
EditTexts == {"edited"}
\* What a user submits at the edit prompt, as characters: nothing, blanks, a
\* message.
TypedTexts == {<<>>, <<" ">>, <<"\t", " ">>, <<"e", "d", "i", "t", "e", "d">>}
\* The value of --instructions, or the text typed at the instructions prompt.
InstructionTexts == {"keep tests apart"}
NoInstructions == "undefined"

\* ------------------------------------------------------------ pure helpers

Range(s) == {s[n] : n \in 1..Len(s)}

\* Array.prototype.filter over a list of paths.
FilterIn(s, S) == SelectSeq(s, LAMBDA e : e \in S)

\* The paths of S in git's listing order.
Listed(S) == FilterIn(PathOrder, S)

\* ------------------------------------------------- the Proposal Synthesizer

FileLists(longest) == UNION {[1..n -> Paths] : n \in 0..longest}

RECURSIVE SumLen(_)
SumLen(fss) == IF fss = <<>> THEN 0 ELSE Len(Head(fss)) + SumLen(Tail(fss))

ReplyDraft(k, fs) == [id |-> ReplyIds[k], message |-> ReplyMessages[k], files |-> fs]

\* Every parsed reply whose drafts field is a list (the replies the validation accepts).
Replies ==
  UNION {{[k \in 1..d |-> ReplyDraft(k, f[k])] :
            f \in {g \in [1..d -> FileLists(MaxReplySize - d)] : d + SumLen(g) <= MaxReplySize}} :
         d \in 0..MaxReplySize}

\* d.files as flatMap takes it: a draft without the field gives undefined,
\* which is no path.
FilesOf(d) == IF "files" \in DOMAIN d THEN d.files ELSE <<>>

\* new Set(parsed.drafts.flatMap((d) => d.files))
AllFilesInDrafts(ds) == UNION {Range(FilesOf(ds[k])) : k \in 1..Len(ds)}

FallbackDraft(file) ==
  [id |-> "1", message |-> "chore: miscellaneous changes", files |-> <<file>>]

\* A missing file pushed to the first draft instead of the last.
AddMissingToFirst(ds, file) ==
  IF Len(ds) > 0
    THEN [ds EXCEPT ![1].files = Append(@, file)]
    ELSE <<FallbackDraft(file)>>

\* One missing file: pushed to the last draft, or to a new fallback draft.
AddMissing(ds, file) ==
  IF Len(ds) > 0
    THEN [ds EXCEPT ![Len(ds)].files = Append(@, file)]
    ELSE <<FallbackDraft(file)>>

\* The loop over inputFiles; inDrafts is computed once, before the loop.
RECURSIVE RepairLoop(_, _, _)
RepairLoop(ds, rest, inDrafts) ==
  IF rest = <<>> THEN ds
  ELSE IF Head(rest) \notin inDrafts
    THEN RepairLoop(AddMissing(ds, Head(rest)), Tail(rest), inDrafts)
    ELSE RepairLoop(ds, Tail(rest), inDrafts)

\* The reply is trusted as it is: no repair.
RepairDraftsSkipped(files, ds) == ds

\* The drafts analyzeChangesForComposer returns for an accepted reply.
RepairDrafts(files, ds) == RepairLoop(ds, files, AllFilesInDrafts(ds))

\* toDraftCommit: a FileChange is identified by its path; fileMap's keys are
\* the paths of fileDiffs.
toDraftCommit(aiDraft, allFiles) ==
  [id |-> aiDraft.id, message |-> aiDraft.message, files |-> FilterIn(aiDraft.files, allFiles)]

\* analysis.drafts.map((d) => toDraftCommit(d, fileMap))
ToDrafts(ads, files) == [k \in 1..Len(ads) |-> toDraftCommit(ads[k], Range(files))]

\* ---------------------------------------------------- the git repository

\* The state of one path against HEAD and the index, as git status reports it:
\* "untracked" and "unstaged" are changes outside the index, "added" (a new
\* file) and "modified" (a tracked file) are changes inside it. A path is in
\* one state: a file changed both inside and outside the index is not modelled.
PathStates == {"clean", "untracked", "unstaged", "added", "modified"}

Staged(w) == {f \in Paths : w[f] \in {"added", "modified"}}
Unstaged(w) == {f \in Paths : w[f] = "unstaged"}
Untracked(w) == {f \in Paths : w[f] = "untracked"}

\* getStatus: git status --porcelain, split into the three lists.
getStatus(w) ==
  [staged |-> Listed(Staged(w)), unstaged |-> Listed(Unstaged(w)),
   untracked |-> Listed(Untracked(w))]

hasChanges(status) ==
  Len(status.staged) > 0 \/ Len(status.unstaged) > 0 \/ Len(status.untracked) > 0

\* git add of the paths in S.
GitAdd(w, S) ==
  [f \in Paths |->
    IF f \in S /\ w[f] = "untracked" THEN "added"
    ELSE IF f \in S /\ w[f] = "unstaged" THEN "modified"
    ELSE w[f]]

\* stageAll: git add -A.
GitAddAll(w) == GitAdd(w, Paths)

\* git reset HEAD: the index is made equal to HEAD.
GitResetHead(w) ==
  [f \in Paths |->
    IF w[f] = "added" THEN "untracked"
    ELSE IF w[f] = "modified" THEN "unstaged"
    ELSE w[f]]

\* unstageAll: git reset HEAD fails when HEAD names no commit, and the
\* failure is swallowed: the index is then left as it was.
unstageAll(w, head) == IF head THEN GitResetHead(w) ELSE w

\* git commit: the whole index goes into the commit.
GitCommit(w) == [f \in Paths |-> IF f \in Staged(w) THEN "clean" ELSE w[f]]

\* A call of one of the git helpers that change the index or the history,
\* with the arguments the caller passes (before commit() quotes the message).
Op(name, files, message) == [op |-> name, files |-> files, message |-> message]

\* getAllFileDiffs(true) followed by the pseudo-diffs of the untracked files
\* (every untracked file has content, so line 167 keeps it).
CollectFileDiffs(w) == getStatus(w).staged \o getStatus(w).untracked

\* Every list of changed files composeCommand can collect.
InputLists == {CollectFileDiffs(w) : w \in [Paths -> PathStates]}

\* Lines 237-243: the draft lists analyzeChangesForComposer and toDraftCommit
\* make of the accepted replies, per list of input files.
SynthesizedDrafts ==
  [files \in InputLists |-> {ToDrafts(RepairDrafts(files, parsed), files) : parsed \in Replies}]

\* ------------------------------------------------------------------- state

VARIABLES
  pc,             \* where composeCommand is
  options,        \* ComposeOptions: all, yes, instructions
  isRepo,         \* whether the directory is a git repository
  wt,             \* path -> its state in the working tree and the index
  hasHead,        \* whether HEAD names a commit
  history,        \* the commits created by this run, in order
  ops,            \* the index- and history-changing helper calls issued so far
  stagedAtStart,  \* status.staged of the first getStatus
  instructions,   \* the instructions passed to the synthesizer
  fileDiffs,      \* the paths of fileDiffs, in order
  reply,          \* analyzeChangesForComposer on its own: parsed.drafts as received
  analysis,       \* analyzeChangesForComposer on its own: the drafts returned
  drafts,         \* the DraftCommit list of the revision loop
  i,              \* applyAllDrafts: the draft being applied (1-based)
  selectedIndex,  \* editDraftMessage: the draft picked (1-based), 0 outside
  shown,          \* the lines the applier has shown
  thrown,         \* the error that left composeCommand uncaught
  exitCode,       \* the argument of process.exit: "none" while running
  validationError,  \* editDraftMessage: what validate said of the text last submitted
  logged,         \* what the last pass of the revision loop gave p.log.error: "none" if nothing
  parsed,         \* analyzeChangesForComposer on its own: the value JSON.parse returned
  numstatLines,   \* getChangedFilesWithStats: the lines of git diff --numstat, in fields
  nameStatusLines,  \* the lines of git diff --name-status, in fields
  changedFiles,   \* getChangedFilesWithStats: the records returned
  content,        \* the content of an untracked file, as characters
  diff,           \* createDiffForUntracked: the pseudo-diff, as characters
  stats,          \* lines 168-176: the stats of the pushed change record
  request,        \* the request to the collaborator that is running: "none" between two
  requests,       \* how many requests were made
  session,        \* session.data.id of the running request: 0 without session.data
  sessions,       \* the sessions that exist on the server
  result,         \* what client.session.prompt resolved to
  prompts,        \* the prompts sent: which request sent it, to which session
  clientInstance, \* opencode.ts, line 27: the client kept, 0 for null
  serverInstance, \* opencode.ts, line 28: the server kept, 0 for null
  servers,        \* the servers this process spawned that are still running
  handlers,       \* how often the exit and signal handlers were registered
  clients,        \* how many clients were made
  spawned,        \* how many servers were spawned
  environment,    \* whether a server listens already, opencode is installed
  tree,           \* deslop: path -> its content in HEAD, in the index, in the working tree
  autoDeslop,     \* config.commit.autoDeslop
  stagedDiff,     \* deslop: the staged diff taken before the cleanup
  stagedFiles,    \* deslop with a session: statusBefore.staged
  deslopResult,   \* what generateDeslopPatch returned
  deslopSession,  \* what runDeslopEdits returned
  returned,       \* what maybeDeslopStagedChanges returned: "none" while it runs
  action,         \* the answer to "Keep deslop changes?": "none" if it was not asked
  modelFiles,     \* the global and the repository models.json
  flags,          \* resolveModelConfig: the overrides passed
  resolved,       \* resolveModelConfig: the configuration returned
  synthCalls      \* composeCommand: the arguments of its analyzeChangesForComposer calls

vars ==
  <<pc, options, isRepo, wt, hasHead, history, ops, stagedAtStart, instructions,
    fileDiffs, reply, analysis, drafts, i, selectedIndex, shown, thrown, exitCode,
    validationError, logged, parsed, numstatLines, nameStatusLines, changedFiles,
    content, diff, stats, request, requests, session, sessions, result, prompts,
    clientInstance, serverInstance, servers, handlers, clients, spawned, environment,
    tree, autoDeslop, stagedDiff, stagedFiles, deslopResult, deslopSession, returned,
    action, modelFiles, flags, resolved, synthCalls>>

\* What the prompts and the log of the revision loop last said.
notices == <<validationError, logged>>

\* The state of the functions that are checked on their own.
requesting == <<request, requests, session, sessions, result, prompts>>

\* The collaborator handles of the process.
connecting ==
  <<clientInstance, serverInstance, servers, handlers, clients, spawned, environment>>

\* A field that is not there.
Undefined == "undefined"

\* The state of the deslop workflow.
deslopping ==
  <<tree, autoDeslop, stagedDiff, stagedFiles, deslopResult, deslopSession, returned,
    action>>

\* The state of resolveModelConfig.
resolving == <<modelFiles, flags, resolved>>

\* What composeCommand never touches.
apart ==
  <<parsed, numstatLines, nameStatusLines, changedFiles, content, diff, stats, requesting,
    connecting, deslopping, resolving>>

elsewhere == <<apart, synthCalls>>

\* A task without a model, and a configuration without any (part_002, lines 23-27).
NoSelection == [provider |-> Undefined, model |-> Undefined]
NoModels == [commit |-> NoSelection, changelog |-> NoSelection, composer |-> NoSelection]

\* resolveModelConfig does not run.
NoConfig ==
  /\ modelFiles = [global |-> [kind |-> "missing", config |-> NoModels],
                   repo |-> [kind |-> "missing", config |-> NoModels]]
  /\ flags = NoModels
  /\ resolved = NoModels

\* No patch was generated.
NoDeslopResult == [patch |-> <<>>, summary |-> Undefined]

\* let deslopSession = null (part_004, line 174).
NoDeslopSession == [open |-> FALSE, inPlace |-> FALSE, before |-> {}, summary |-> ""]

\* maybeDeslopStagedChanges does not run.
NoDeslop ==
  /\ tree = [f \in {"x", "y"} |-> [head |-> 1, index |-> 1, work |-> 1]]
  /\ autoDeslop = FALSE
  /\ stagedDiff = {}
  /\ stagedFiles = {}
  /\ deslopResult = NoDeslopResult
  /\ deslopSession = NoDeslopSession
  /\ returned = "none"
  /\ action = "none"

\* Lines 27-28: no handle is kept; nothing was spawned or registered.
NoClient ==
  /\ clientInstance = 0
  /\ serverInstance = 0
  /\ servers = {}
  /\ handlers = 0
  /\ clients = 0
  /\ spawned = 0
  /\ environment = [listening |-> FALSE, installed |-> TRUE]

\* info.error of a reply without one.
NoInfoError == [present |-> FALSE, code |-> Undefined, type |-> Undefined,
                message |-> Undefined]

\* No request is running and none was made.
NoRequest ==
  /\ request = "none"
  /\ requests = 0
  /\ session = 0
  /\ sessions = {}
  /\ result = [data |-> FALSE, error |-> NoInfoError, parts |-> <<>>]
  /\ prompts = <<>>

\* elsewhere while composeCommand runs.
Idle ==
  /\ parsed = <<>>
  /\ numstatLines = <<>>
  /\ nameStatusLines = <<>>
  /\ changedFiles = <<>>
  /\ content = <<>>
  /\ diff = <<>>
  /\ stats = <<>>
  /\ NoRequest
  /\ NoClient
  /\ NoConfig
  /\ synthCalls = {}
  /\ NoDeslop

NoError == [message |-> "none", from |-> "none"]

\* git(): every failure is rethrown as Error("Git command failed: ...").
GitError(helper) == [message |-> "Git command failed", from |-> helper]

AllClean == [f \in Paths |-> "clean"]

Init ==
  /\ pc = "start"
  /\ options \in [all : BOOLEAN, yes : BOOLEAN,
                  instructions : {NoInstructions} \cup InstructionTexts]
  /\ isRepo \in BOOLEAN
  /\ hasHead \in BOOLEAN
  /\ wt \in [Paths -> PathStates]
  /\ ~isRepo => wt = AllClean /\ ~hasHead
  \* Without a commit no path is tracked: a change is a new file.
  /\ ~hasHead => \A f \in Paths : wt[f] \in {"clean", "untracked", "added"}
  /\ history = <<>>
  /\ ops = <<>>
  /\ stagedAtStart = <<>>
  /\ instructions = NoInstructions
  /\ fileDiffs = <<>>
  /\ reply = <<>>
  /\ analysis = <<>>
  /\ drafts = <<>>
  /\ i = 0
  /\ selectedIndex = 0
  /\ shown = <<>>
  /\ thrown = NoError
  /\ exitCode = "none"
  /\ validationError = "undefined"
  /\ logged = "none"
  /\ Idle

\* ----------------------------------------------------------- composeCommand

\* process.exit(code) after p.cancel or p.outro.
Exit(code) == pc' = "exit" /\ exitCode' = code

\* Lines 161-229, once the staging decision is taken: w and o are the working
\* tree and the helper calls after it.
AfterStaging(w, o) ==
  /\ wt' = w
  /\ ops' = o
  /\ fileDiffs' = CollectFileDiffs(w)
  /\ instructions' = options.instructions
  /\ IF Len(CollectFileDiffs(w)) = 0 THEN Exit("0")
     ELSE /\ exitCode' = exitCode
          /\ pc' = IF ~options.yes /\ options.instructions = NoInstructions
                     THEN "instructions" ELSE "analyze"

\* stageAll whenever there are changes, --all given or not.
StageFirstAlways(opts, status) == hasChanges(status)

\* stageAll whenever --all is given, changes or not.
StageFirstUnchecked(opts, status) == opts.all

\* Line 118: options.all && hasChanges(status).
StageFirst(opts, status) == opts.all /\ hasChanges(status)

\* Lines 107-159, up to the first prompt.
Begin ==
  /\ pc = "start"
  /\ UNCHANGED <<options, isRepo, hasHead, history, reply, analysis, drafts, i,
                 selectedIndex, shown, thrown>>
  /\ IF ~isRepo
       THEN /\ Exit("1")
            /\ UNCHANGED <<wt, ops, stagedAtStart, instructions, fileDiffs>>
       ELSE
         LET first == getStatus(wt)
             stageFirst == StageFirst(options, first)
             w1 == IF stageFirst THEN GitAddAll(wt) ELSE wt
             o1 == IF stageFirst THEN Append(ops, Op("stageAll", <<>>, "")) ELSE ops
             status == getStatus(w1)
         IN
         /\ stagedAtStart' = first.staged
         /\ IF ~hasChanges(status)
              THEN /\ Exit("0")
                   /\ wt' = w1 /\ ops' = o1
                   /\ UNCHANGED <<instructions, fileDiffs>>
            ELSE IF Len(status.staged) = 0
              THEN IF ~options.yes
                     THEN /\ pc' = "confirm_stage"
                          /\ wt' = w1 /\ ops' = o1
                          /\ UNCHANGED <<instructions, fileDiffs, exitCode>>
                     ELSE AfterStaging(GitAddAll(w1), Append(o1, Op("stageAll", <<>>, "")))
            ELSE AfterStaging(w1, o1)
  /\ UNCHANGED <<notices, elsewhere>>

\* Lines 141-159: the answer to "Stage all changes for composition?".
ConfirmStage ==
  /\ pc = "confirm_stage"
  /\ UNCHANGED <<options, isRepo, hasHead, history, stagedAtStart, reply, analysis,
                 drafts, i, selectedIndex, shown, thrown>>
  /\ \E shouldStage \in {"cancel", "no", "yes"} :
       IF shouldStage = "yes"
         THEN AfterStaging(GitAddAll(wt), Append(ops, Op("stageAll", <<>>, "")))
         ELSE /\ Exit("0")
              /\ UNCHANGED <<wt, ops, instructions, fileDiffs>>
  /\ UNCHANGED <<notices, elsewhere>>

\* Lines 216-229: the optional instructions prompt.
AskInstructions ==
  /\ pc = "instructions"
  /\ UNCHANGED <<options, isRepo, wt, hasHead, history, ops, stagedAtStart, fileDiffs,
                 reply, analysis, drafts, i, selectedIndex, shown, thrown>>
  /\ \E userInstructions \in {"cancel", ""} \cup InstructionTexts :
       IF userInstructions = "cancel"
         THEN Exit("0") /\ UNCHANGED instructions
         ELSE /\ instructions' = IF userInstructions = "" THEN NoInstructions
                                 ELSE userInstructions
              /\ pc' = "analyze"
              /\ UNCHANGED exitCode
  /\ UNCHANGED <<notices, elsewhere>>

\* The ways analyzeChangesForComposer throws.
SynthErrors == {"auth", "provider", "empty", "parse"}

\* The applier hands the run back to the selection prompt when it is over.
ApplyLoopHeadLooping(n, ds, sh) ==
  /\ i' = n
  /\ exitCode' = exitCode
  /\ IF n <= Len(ds)
       THEN pc' = "apply_unstage" /\ shown' = sh
       ELSE /\ pc' = "select"
            /\ shown' = Append(sh, [line |-> "success", n |-> Len(ds), of |-> Len(ds)])

\* for (let i = 0; i < drafts.length; i++) at i = n - 1, and lines 362 and
\* 336-338 when the loop is over.
ApplyLoopHead(n, ds, sh) ==
  /\ i' = n
  /\ IF n <= Len(ds)
       THEN pc' = "apply_unstage" /\ shown' = sh /\ exitCode' = exitCode
       ELSE /\ Exit("0")
            /\ shown' = Append(sh, [line |-> "success", n |-> Len(ds), of |-> Len(ds)])

\* Lines 238-242: the options of the first call of analyzeChangesForComposer;
\* an input file stands for its toComposerInput.
FirstCall(files, userInstructions) ==
  [files |-> files, instructions |-> userInstructions]

\* A call without the instructions.
RegenerateCallBare(files, userInstructions) ==
  [files |-> files, instructions |-> NoInstructions]

\* Lines 319-323: the options of the call made by regenerate.
RegenerateCall(files, userInstructions) ==
  [files |-> files, instructions |-> userInstructions]

\* The first synthesis followed by the selection prompt, --yes or not.
AnalyzeThenSelect ==
  /\ pc = "analyze"
  /\ UNCHANGED <<options, isRepo, wt, hasHead, history, ops, stagedAtStart,
                 instructions, fileDiffs, selectedIndex, thrown>>
  /\ synthCalls' = synthCalls \cup {FirstCall(fileDiffs, instructions)}
  /\ \/ \E error \in SynthErrors :
          /\ Exit("1")
          /\ UNCHANGED <<reply, analysis, drafts, i, shown>>
     \/ \E ds \in SynthesizedDrafts[fileDiffs] :
          /\ drafts' = ds
          /\ pc' = "select"
          /\ UNCHANGED <<reply, analysis, i, shown, exitCode>>
  /\ UNCHANGED <<notices, apart>>

\* Lines 231-266: the first synthesis, and with --yes the start of the applier.
Analyze ==
  /\ pc = "analyze"
  /\ UNCHANGED <<options, isRepo, wt, hasHead, history, ops, stagedAtStart,
                 instructions, fileDiffs, selectedIndex, thrown>>
  /\ synthCalls' = synthCalls \cup {FirstCall(fileDiffs, instructions)}
  /\ \/ \E error \in SynthErrors :
          /\ Exit("1")
          /\ UNCHANGED <<reply, analysis, drafts, i, shown>>
     \/ \E ds \in SynthesizedDrafts[fileDiffs] :
          /\ drafts' = ds
          /\ UNCHANGED <<reply, analysis>>
          /\ IF options.yes THEN ApplyLoopHead(1, ds, shown)
             ELSE pc' = "select" /\ UNCHANGED <<i, shown, exitCode>>
  /\ UNCHANGED <<notices, apart>>

\* ------------------------------------------------------- the revision loop

\* A cancel that clears the index before it exits.
SelectCancelUnstaging ==
  /\ pc = "select"
  /\ Exit("0")
  /\ ops' = Append(ops, Op("unstageAll", <<>>, ""))
  /\ wt' = unstageAll(wt, hasHead)
  /\ UNCHANGED <<options, isRepo, hasHead, history, stagedAtStart, instructions,
                 fileDiffs, reply, analysis, drafts, i, selectedIndex, shown, thrown>>
  /\ logged' = "none"
  /\ UNCHANGED <<validationError, elsewhere>>

\* Lines 295-299: cancel, or an interrupt of the selection prompt.
SelectCancel ==
  /\ pc = "select"
  /\ Exit("0")
  /\ UNCHANGED <<options, isRepo, wt, hasHead, history, ops, stagedAtStart,
                 instructions, fileDiffs, reply, analysis, drafts, i, selectedIndex,
                 shown, thrown>>
  /\ logged' = "none"
  /\ UNCHANGED <<validationError, elsewhere>>

\* Lines 302-305: apply_all.
SelectApplyAll ==
  /\ pc = "select"
  /\ ApplyLoopHead(1, drafts, shown)
  /\ UNCHANGED <<options, isRepo, wt, hasHead, history, ops, stagedAtStart,
                 instructions, fileDiffs, reply, analysis, drafts, selectedIndex, thrown>>
  /\ logged' = "none"
  /\ UNCHANGED <<validationError, elsewhere>>

\* Lines 307-308 and 369-378: edit_message opens the draft selection.
SelectEditMessage ==
  /\ pc = "select"
  /\ pc' = "edit_select"
  /\ UNCHANGED <<options, isRepo, wt, hasHead, history, ops, stagedAtStart,
                 instructions, fileDiffs, reply, analysis, drafts, i, selectedIndex,
                 shown, thrown, exitCode>>
  /\ logged' = "none"
  /\ UNCHANGED <<validationError, elsewhere>>

\* Lines 375-391: the draft is picked, or the selection is cancelled.
EditSelectDraft ==
  /\ pc = "edit_select"
  /\ \/ \E picked \in 1..Len(drafts) : selectedIndex' = picked /\ pc' = "edit_text"
     \/ selectedIndex' = 0 /\ pc' = "select"
  /\ UNCHANGED <<options, isRepo, wt, hasHead, history, ops, stagedAtStart,
                 instructions, fileDiffs, reply, analysis, drafts, i, shown, thrown,
                 exitCode>>
  /\ UNCHANGED <<notices, elsewhere>>

\* The new message written into every draft.
updatedDraftsAll(ds, picked, newMessage) ==
  [k \in 1..Len(ds) |-> [id |-> ds[k].id, message |-> newMessage, files |-> ds[k].files]]

\* Lines 398-402: a copy of the list whose selected draft has the new message.
updatedDrafts(ds, picked, newMessage) ==
  [ds EXCEPT ![picked] = [id |-> @.id, message |-> newMessage, files |-> @.files]]

\* The characters String.prototype.trim removes.
WhiteSpace == {" ", "\t", "\n"}

RECURSIVE trimStart(_)
trimStart(value) ==
  IF value # <<>> /\ Head(value) \in WhiteSpace THEN trimStart(Tail(value)) ELSE value

RECURSIVE trimEnd(_)
trimEnd(value) ==
  IF value # <<>> /\ value[Len(value)] \in WhiteSpace
    THEN trimEnd(SubSeq(value, 1, Len(value) - 1))
    ELSE value

\* value.trim()
trim(value) == trimEnd(trimStart(value))

\* The string of a list of characters.
RECURSIVE Str(_)
Str(value) == IF value = <<>> THEN "" ELSE Head(value) \o Str(Tail(value))

\* A validate that accepts every text.
validateAnything(value) == "undefined"

\* Lines 388-390: the validate callback of the text prompt; "undefined" is
\* the return of a callback that returns nothing.
validate(value) ==
  IF trim(value) = <<>> THEN "Commit message cannot be empty" ELSE "undefined"

\* What validate says of each text a user submits, and the string p.text
\* returns for it.
Validated == [value \in TypedTexts |-> validate(value)]
Returned == [value \in TypedTexts |-> Str(value)]

\* Lines 385-405: a text is submitted, or the text prompt is cancelled. A
\* text validate objects to is not returned: the prompt shows the objection
\* and stays open.
EditEnterMessage ==
  /\ pc = "edit_text"
  /\ UNCHANGED <<options, isRepo, wt, hasHead, history, ops, stagedAtStart,
                 instructions, fileDiffs, reply, analysis, i, shown, thrown, exitCode>>
  /\ UNCHANGED <<logged, elsewhere>>
  /\ \/ \E value \in TypedTexts :
          IF Validated[value] # "undefined"
            THEN /\ validationError' = Validated[value]
                 /\ UNCHANGED <<drafts, selectedIndex, pc>>
            ELSE /\ drafts' = updatedDrafts(drafts, selectedIndex, Returned[value])
                 /\ validationError' = "undefined"
                 /\ selectedIndex' = 0
                 /\ pc' = "select"
     \/ /\ drafts' = drafts
        /\ validationError' = "undefined"
        /\ selectedIndex' = 0
        /\ pc' = "select"

\* Lines 312-314 and 412-421: view_draft opens the draft selection.
SelectViewDraft ==
  /\ pc = "select"
  /\ pc' = "view_select"
  /\ UNCHANGED <<options, isRepo, wt, hasHead, history, ops, stagedAtStart,
                 instructions, fileDiffs, reply, analysis, drafts, i, selectedIndex,
                 shown, thrown, exitCode>>
  /\ logged' = "none"
  /\ UNCHANGED <<validationError, elsewhere>>

\* Lines 418-456: the picked draft is printed, or the selection is cancelled.
ViewDraftDetails ==
  /\ pc = "view_select"
  /\ pc' = "select"
  /\ UNCHANGED <<options, isRepo, wt, hasHead, history, ops, stagedAtStart,
                 instructions, fileDiffs, reply, analysis, drafts, i, selectedIndex,
                 shown, thrown, exitCode>>
  /\ UNCHANGED <<notices, elsewhere>>

\* error.message of the errors analyzeChangesForComposer throws (opencode.ts,
\* lines 498-505, 526-528 and 568), without the detail appended to it.
SynthErrorMessage ==
  [auth |-> "Authentication failed for provider",
   provider |-> "AI Provider Error",
   empty |-> "No analysis generated. The AI model returned an empty response.",
   parse |-> "Failed to parse AI response"]

\* The failure handled as the failure of the first analysis is: the run ends.
RegenerateFailedExits(error) ==
  /\ logged' = SynthErrorMessage[error]
  /\ Exit("1")
  /\ UNCHANGED drafts

\* Lines 327-330: the error of a failed regenerate is logged and the loop
\* goes on with the drafts it had.
RegenerateFailed(error) ==
  /\ logged' = SynthErrorMessage[error]
  /\ pc' = "select"
  /\ UNCHANGED <<drafts, exitCode>>

\* Lines 316-318: regenerate starts the spinner and calls the synthesizer.
SelectRegenerate ==
  /\ pc = "select"
  /\ pc' = "regenerate"
  /\ UNCHANGED <<options, isRepo, wt, hasHead, history, ops, stagedAtStart,
                 instructions, fileDiffs, reply, analysis, drafts, i, selectedIndex,
                 shown, thrown, exitCode>>
  /\ logged' = "none"
  /\ UNCHANGED <<validationError, elsewhere>>

\* Lines 319-331: the synthesizer returns, or throws.
Regenerate ==
  /\ pc = "regenerate"
  /\ UNCHANGED <<options, isRepo, wt, hasHead, history, ops, stagedAtStart,
                 instructions, fileDiffs, reply, analysis, i, selectedIndex, shown,
                 thrown>>
  /\ UNCHANGED <<validationError, apart>>
  /\ synthCalls' = synthCalls \cup {RegenerateCall(fileDiffs, instructions)}
  /\ \/ \E error \in SynthErrors : RegenerateFailed(error)
     \/ \E ds \in SynthesizedDrafts[fileDiffs] :
          drafts' = ds /\ pc' = "select" /\ UNCHANGED <<exitCode, logged>>

\* ------------------------------------------------- the sequential applier

\* draft.files.map((f) => f.path)
filePaths(draft) == draft.files

\* The error is recorded and the loop goes on with the draft.
ApplyFailedSwallowed(error) ==
  /\ shown' = Append(shown, [line |-> "failed", n |-> i, of |-> Len(drafts)])
  /\ thrown' = error
  /\ pc' = "apply_unstage"

\* Lines 356-358: the failure line, and the error rethrown to the caller of
\* composeCommand.
ApplyFailed(error) ==
  /\ shown' = Append(shown, [line |-> "failed", n |-> i, of |-> Len(drafts)])
  /\ thrown' = error
  /\ pc' = "thrown"

\* applyDraft without its unstageAll call.
ApplyUnstageSkipped ==
  /\ pc = "apply_unstage"
  /\ pc' = "apply_stage"
  /\ UNCHANGED <<options, isRepo, wt, hasHead, history, ops, stagedAtStart,
                 instructions, fileDiffs, reply, analysis, drafts, i, selectedIndex,
                 shown, thrown, exitCode>>
  /\ UNCHANGED <<notices, elsewhere>>

\* applyDraft, line 91: unstageAll.
ApplyUnstage ==
  /\ pc = "apply_unstage"
  /\ ops' = Append(ops, Op("unstageAll", <<>>, ""))
  /\ wt' = unstageAll(wt, hasHead)
  /\ pc' = "apply_stage"
  /\ UNCHANGED <<options, isRepo, hasHead, history, stagedAtStart, instructions,
                 fileDiffs, reply, analysis, drafts, i, selectedIndex, shown, thrown,
                 exitCode>>
  /\ UNCHANGED <<notices, elsewhere>>

\* applyDraft, lines 94-95: stageFiles, which adds nothing for an empty list;
\* git add fails or stages the paths.
ApplyStage ==
  /\ pc = "apply_stage"
  /\ ops' = Append(ops, Op("stageFiles", filePaths(drafts[i]), ""))
  /\ \/ /\ wt' = GitAdd(wt, Range(filePaths(drafts[i])))
        /\ pc' = "apply_commit"
        /\ UNCHANGED <<shown, thrown>>
     \/ /\ Len(filePaths(drafts[i])) > 0
        /\ ApplyFailed(GitError("stageFiles"))
        /\ UNCHANGED wt
  /\ UNCHANGED <<options, isRepo, hasHead, history, stagedAtStart, instructions,
                 fileDiffs, reply, analysis, drafts, i, selectedIndex, exitCode>>
  /\ UNCHANGED <<notices, elsewhere>>

\* applyDraft, line 98, and lines 353-355: git commit takes the whole index
\* and fails on an empty one (or for a reason of its own: a hook, no identity).
ApplyCommit ==
  /\ pc = "apply_commit"
  /\ ops' = Append(ops, Op("commit", <<>>, drafts[i].message))
  /\ \/ /\ Staged(wt) # {}
        /\ history' = Append(history, [message |-> drafts[i].message, files |-> Staged(wt)])
        /\ wt' = GitCommit(wt)
        /\ hasHead' = TRUE
        /\ ApplyLoopHead(i + 1, drafts,
                         Append(shown, [line |-> "ok", n |-> i, of |-> Len(drafts)]))
        /\ UNCHANGED thrown
     \/ /\ ApplyFailed(GitError("commit"))
        /\ UNCHANGED <<wt, hasHead, history, i, exitCode>>
  /\ UNCHANGED <<options, isRepo, stagedAtStart, instructions, fileDiffs, reply,
                 analysis, drafts, selectedIndex>>
  /\ UNCHANGED <<notices, elsewhere>>

Next ==
  \/ Begin
  \/ ConfirmStage
  \/ AskInstructions
  \/ Analyze
  \/ SelectCancel
  \/ SelectApplyAll
  \/ SelectEditMessage
  \/ EditSelectDraft
  \/ EditEnterMessage
  \/ SelectViewDraft
  \/ ViewDraftDetails
  \/ SelectRegenerate
  \/ Regenerate
  \/ ApplyUnstage
  \/ ApplyStage
  \/ ApplyCommit

Spec == Init /\ [][Next]_vars

\* ------------------------------ analyzeChangesForComposer on its own

\* The values JSON.parse makes, with their kind.
JArray(list) == [type |-> "array", items |-> list]
JString(text) == [type |-> "string", text |-> text]
JNumber(n) == [type |-> "number", number |-> n]
JObject(fields) == [type |-> "object", fields |-> fields]
JNull == [type |-> "null"]

\* Whether !value is false.
Truthy(value) ==
  CASE value.type \in {"array", "object"} -> TRUE
    [] value.type = "string" -> value.text # ""
    [] value.type = "number" -> value.number # 0
    [] OTHER -> FALSE

\* The parsed replies that are objects without a list of drafts: no drafts
\* field, or one that is null, a string, a number or a single draft.
MalformedReplies ==
  {[reasoning |-> JString("one commit")],
   [drafts |-> JNull, reasoning |-> JString("one commit")],
   [drafts |-> JString("")],
   [drafts |-> JString("none")],
   [drafts |-> JNumber(0)],
   [drafts |-> JNumber(2)],
   [drafts |-> JObject(ReplyDraft(1, <<"x">>))]}

\* Every reply is taken to have a list of drafts.
InvalidStructureNever(object) == FALSE

\* Line 543: !parsed.drafts || !Array.isArray(parsed.drafts).
InvalidStructure(object) ==
  IF "drafts" \notin DOMAIN object THEN TRUE
  ELSE ~Truthy(object.drafts) \/ object.drafts.type # "array"

\* Lists of drafts in which a draft has no message (reading it gives
\* undefined), or no files.
DraftsLackingFields ==
  {<<[id |-> "1", message |-> Undefined, files |-> <<"x">>]>>,
   <<[id |-> "1", message |-> Undefined, files |-> <<"x", "y">>]>>,
   <<ReplyDraft(1, <<"y">>), [id |-> "2", message |-> Undefined, files |-> <<"x">>]>>,
   <<[id |-> "1", message |-> "feat: a"]>>,
   <<ReplyDraft(1, <<"x">>), [id |-> "2", message |-> "fix: b"]>>,
   <<[id |-> "1", message |-> "feat: a"], ReplyDraft(2, <<"x", "y">>)>>,
   <<[id |-> "1", message |-> Undefined]>>}

\* Line 555: parsed.drafts[parsed.drafts.length - 1].files.push(file) throws
\* a TypeError when a file is missing and the last draft has no files.
PushThrows(files, ds) ==
  /\ Len(ds) > 0
  /\ "files" \notin DOMAIN ds[Len(ds)]
  /\ ~(Range(files) \subseteq AllFilesInDrafts(ds))

\* toDraftCommit, line 44: aiDraft.files.map throws a TypeError for a draft
\* without files.
MapThrows(ds) == \E k \in 1..Len(ds) : "files" \notin DOMAIN ds[k]

\* The inputs of one call: a non-empty list of input files (composeCommand
\* stops at line 182 on an empty one) and the parsed reply; reply is its list
\* of drafts, empty if it has none.
InitSynth ==
  /\ pc = "synth_call"
  /\ fileDiffs \in InputLists \ {<<>>}
  /\ reply \in Replies \cup DraftsLackingFields
  /\ parsed \in {[drafts |-> JArray(reply)]}
                  \cup (IF reply = <<>> THEN MalformedReplies ELSE {})
  /\ analysis = <<>>
  /\ drafts = <<>>
  /\ options = [all |-> FALSE, yes |-> FALSE, instructions |-> NoInstructions]
  /\ isRepo = TRUE
  /\ hasHead = TRUE
  /\ wt = AllClean
  /\ history = <<>>
  /\ ops = <<>>
  /\ stagedAtStart = <<>>
  /\ instructions = NoInstructions
  /\ i = 0
  /\ selectedIndex = 0
  /\ shown = <<>>
  /\ thrown = NoError
  /\ exitCode = "none"
  /\ validationError = "undefined"
  /\ logged = "none"
  /\ numstatLines = <<>>
  /\ nameStatusLines = <<>>
  /\ changedFiles = <<>>
  /\ content = <<>>
  /\ diff = <<>>
  /\ stats = <<>>
  /\ NoRequest
  /\ NoClient
  /\ NoConfig
  /\ synthCalls = {}
  /\ NoDeslop

\* Lines 543-545 and 567-569: the error thrown in the try block is caught and
\* thrown again with its message after "Failed to parse AI response: ".
SynthThrow ==
  /\ pc = "synth_call"
  /\ InvalidStructure(parsed) \/ PushThrows(fileDiffs, reply)
  /\ thrown' = [message |-> SynthErrorMessage.parse
                              \o (IF InvalidStructure(parsed)
                                    THEN ": Invalid response structure: missing drafts array"
                                    ELSE ": Cannot read properties of undefined (reading 'push')"),
                from |-> "analyzeChangesForComposer"]
  /\ pc' = "synth_thrown"
  /\ UNCHANGED <<options, isRepo, wt, hasHead, history, ops, stagedAtStart,
                 instructions, fileDiffs, reply, analysis, drafts, i, selectedIndex,
                 shown, exitCode>>
  /\ UNCHANGED <<notices, elsewhere>>

\* Lines 543-566 of analyzeChangesForComposer, then line 243 of composeCommand
\* throws in toDraftCommit: the catch block of lines 248-253 shows the error.
SynthMapThrow ==
  /\ pc = "synth_call"
  /\ ~InvalidStructure(parsed)
  /\ ~PushThrows(fileDiffs, reply)
  /\ MapThrows(reply)
  /\ thrown' = [message |-> "Cannot read properties of undefined (reading 'map')",
                from |-> "toDraftCommit"]
  /\ pc' = "synth_thrown"
  /\ UNCHANGED <<options, isRepo, wt, hasHead, history, ops, stagedAtStart,
                 instructions, fileDiffs, reply, analysis, drafts, i, selectedIndex,
                 shown, exitCode>>
  /\ UNCHANGED <<notices, elsewhere>>

\* Lines 543-566 of analyzeChangesForComposer, then line 243 of composeCommand.
SynthReturn ==
  /\ pc = "synth_call"
  /\ ~InvalidStructure(parsed)
  /\ ~PushThrows(fileDiffs, reply)
  /\ ~MapThrows(reply)
  /\ analysis' = RepairDrafts(fileDiffs, reply)
  /\ drafts' = ToDrafts(RepairDrafts(fileDiffs, reply), fileDiffs)
  /\ pc' = "synth_done"
  /\ UNCHANGED <<options, isRepo, wt, hasHead, history, ops, stagedAtStart,
                 instructions, fileDiffs, reply, i, selectedIndex, shown, thrown,
                 exitCode>>
  /\ UNCHANGED <<notices, elsewhere>>

NextSynth == SynthReturn \/ SynthThrow \/ SynthMapThrow

SpecSynth == InitSynth /\ [][NextSynth]_vars

\* ------------------------------------ getChangedFilesWithStats on its own

\* The longest list of numstat lines, and of name-status lines.
MaxStatLines == 2

\* The paths of the changed files.
StatPaths == {"a.ts", "old.ts"}
\* The renames git reports: old path, new path.
RenamePairs == {<<"old.ts", "a.ts">>}

\* How git diff --numstat writes the path of a rename it has detected.
pprint_rename(oldPath, newPath) == oldPath \o " => " \o newPath

\* The fields of a numstat line, as line.split("\t") gives them; the two
\* counts are kept as characters: a decimal number, or "-" for a binary file.
NumstatLines ==
  {<<additions, deletions, path>> :
     additions \in {<<"-">>, <<"3">>, <<"1", "2">>},
     deletions \in {<<"-">>, <<"1">>},
     path \in StatPaths \cup {pprint_rename(r[1], r[2]) : r \in RenamePairs}}

\* The fields of a name-status line: the status, with the similarity score of
\* a rename, kept as characters, then the path, or the old and the new path.
NameStatusLines ==
  {<<<<"A">>, "a.ts">>, <<<<"M">>, "a.ts">>, <<<<"M">>, "old.ts">>, <<<<"D">>, "old.ts">>}
    \cup {<<<<"R", "1", "0", "0">>, r[1], r[2]>> : r \in RenamePairs}

\* The lists of at most longest elements of S.
ListsOf(S, longest) == UNION {[1..n -> S] : n \in 0..longest}

Digits == <<"0", "1", "2", "3", "4", "5", "6", "7", "8", "9">>
DigitValue(c) == (CHOOSE n \in 1..10 : Digits[n] = c) - 1

\* The decimal digits of a natural number: what a template literal writes.
RECURSIVE Decimal(_)
Decimal(n) ==
  IF n < 10 THEN <<Digits[n + 1]>> ELSE Decimal(n \div 10) \o <<Digits[(n % 10) + 1]>>

\* NaN, which no count of git is: written as a number no digits make.
NaN == -1

\* The number the leading digits of cs make, read from the left.
RECURSIVE LeadingDigits(_, _)
LeadingDigits(cs, sofar) ==
  IF cs # <<>> /\ Head(cs) \in Range(Digits)
    THEN LeadingDigits(Tail(cs), 10 * sofar + DigitValue(Head(cs)))
    ELSE sofar

\* parseInt(field, 10) of a field without sign or leading blank.
parseInt(cs) ==
  IF cs # <<>> /\ Head(cs) \in Range(Digits) THEN LeadingDigits(cs, 0) ELSE NaN

\* Every field is parsed, "-" too.
CountParsed(field) == parseInt(field)

\* Lines 621-622: parts[0] === "-" ? 0 : parseInt(parts[0], 10).
Count(field) == IF field = <<"-">> THEN 0 ELSE parseInt(field)

\* statsMap: a Map keeps its entries in the order their keys were first set.
\* statsMap.get(key), as the place of the entry: 0 if there is none.
MapIndex(map, key) ==
  IF \E n \in 1..Len(map) : map[n].key = key
    THEN CHOOSE n \in 1..Len(map) : map[n].key = key
    ELSE 0

\* statsMap.set(key, value)
MapSet(map, key, value) ==
  IF MapIndex(map, key) # 0
    THEN [map EXCEPT ![MapIndex(map, key)].value = value]
    ELSE Append(map, [key |-> key, value |-> value])

\* Lines 618-633: one numstat line.
ReadNumstatLine(map, parts) ==
  IF Len(parts) >= 3
    THEN MapSet(map, parts[3],
                [path |-> parts[3], additions |-> Count(parts[1]),
                 deletions |-> Count(parts[2]), status |-> "modified"])
    ELSE map

RECURSIVE ReadNumstat(_, _)
ReadNumstat(map, lines) ==
  IF lines = <<>> THEN map
  ELSE ReadNumstat(ReadNumstatLine(map, Head(lines)), Tail(lines))

\* Lines 643-659: the switch on the first character of the status.
StatusOf(statusChar) ==
  CASE statusChar = "A" -> "added"
    [] statusChar = "D" -> "deleted"
    [] statusChar = "R" -> "renamed"
    [] OTHER -> "modified"

\* The entry is never looked up.
ExistingNever(map, path, oldPath) == 0

\* The entry is looked up by the new path only.
ExistingByPath(map, path, oldPath) == MapIndex(map, path)

\* Line 661: statsMap.get(path) || statsMap.get(oldPath || ""), as the place
\* of the entry; oldPath is "undefined" for a line of two fields.
Existing(map, path, oldPath) ==
  IF MapIndex(map, path) # 0 THEN MapIndex(map, path)
  ELSE MapIndex(map, IF oldPath = "undefined" THEN "" ELSE oldPath)

\* Lines 636-675: one name-status line. The entry found keeps its key.
ReadNameStatusLine(map, parts) ==
  IF Len(parts) >= 2
    THEN LET statusChar == Head(parts[1])
             path == IF Len(parts) = 3 THEN parts[3] ELSE parts[2]
             oldPath == IF Len(parts) = 3 THEN parts[2] ELSE "undefined"
             status == StatusOf(statusChar)
             existing == Existing(map, path, oldPath)
         IN IF existing # 0
              THEN [map EXCEPT ![existing].value.status = status,
                               ![existing].value.path = path]
              ELSE MapSet(map, path,
                          [path |-> path, additions |-> 0, deletions |-> 0,
                           status |-> status])
    ELSE map

RECURSIVE ReadNameStatus(_, _)
ReadNameStatus(map, lines) ==
  IF lines = <<>> THEN map
  ELSE ReadNameStatus(ReadNameStatusLine(map, Head(lines)), Tail(lines))

\* getChangedFilesWithStats of the two outputs: Array.from(statsMap.values()).
getChangedFilesWithStats(numstat, nameStatus) ==
  IF numstat = <<>> /\ nameStatus = <<>> THEN <<>>
  ELSE LET statsMap == ReadNameStatus(ReadNumstat(<<>>, numstat), nameStatus)
       IN [n \in 1..Len(statsMap) |-> statsMap[n].value]

\* The two outputs of one call.
InitStats ==
  /\ pc = "stats_call"
  /\ numstatLines \in ListsOf(NumstatLines, MaxStatLines)
  /\ nameStatusLines \in ListsOf(NameStatusLines, MaxStatLines)
  /\ changedFiles = <<>>
  /\ parsed = <<>>
  /\ content = <<>>
  /\ diff = <<>>
  /\ stats = <<>>
  /\ options = [all |-> FALSE, yes |-> FALSE, instructions |-> NoInstructions]
  /\ isRepo = TRUE
  /\ hasHead = TRUE
  /\ wt = AllClean
  /\ history = <<>>
  /\ ops = <<>>
  /\ stagedAtStart = <<>>
  /\ instructions = NoInstructions
  /\ fileDiffs = <<>>
  /\ reply = <<>>
  /\ analysis = <<>>
  /\ drafts = <<>>
  /\ i = 0
  /\ selectedIndex = 0
  /\ shown = <<>>
  /\ thrown = NoError
  /\ exitCode = "none"
  /\ validationError = "undefined"
  /\ logged = "none"
  /\ NoRequest
  /\ NoClient
  /\ NoConfig
  /\ synthCalls = {}
  /\ NoDeslop

\* The call returns.
StatsReturn ==
  /\ pc = "stats_call"
  /\ changedFiles' = getChangedFilesWithStats(numstatLines, nameStatusLines)
  /\ pc' = "stats_done"
  /\ UNCHANGED <<options, isRepo, wt, hasHead, history, ops, stagedAtStart,
                 instructions, fileDiffs, reply, analysis, drafts, i, selectedIndex,
                 shown, thrown, exitCode, notices, parsed, numstatLines,
                 nameStatusLines, content, diff, stats, requesting, connecting, deslopping, resolving, synthCalls>>

NextStats == StatsReturn

SpecStats == InitStats /\ [][NextStats]_vars

\* ------------------------- the change record of an untracked file, on its own

\* The longest content of an untracked file, in characters.
MaxContentLen == 6

\* The characters of the content: a letter and the line feed.
ContentChars == {"a", "\n"}

\* The contents readFileSync returns (none for a file it cannot read:
\* getUntrackedFileContent then returns the empty string).
Contents == UNION {[1..n -> ContentChars] : n \in 0..MaxContentLen}

\* text.split(sep) for a separator of one character.
RECURSIVE split(_, _)
split(text, sep) ==
  IF \E n \in 1..Len(text) : text[n] = sep
    THEN LET first == CHOOSE n \in 1..Len(text) :
                        text[n] = sep /\ \A k \in 1..(n - 1) : text[k] # sep
         IN <<SubSeq(text, 1, first - 1)>> \o split(SubSeq(text, first + 1, Len(text)), sep)
    ELSE <<text>>

\* lines.join(sep)
RECURSIVE join(_, _)
join(lines, sep) ==
  IF lines = <<>> THEN <<>>
  ELSE IF Len(lines) = 1 THEN lines[1]
  ELSE lines[1] \o <<sep>> \o join(Tail(lines), sep)

\* line.startsWith(c) for one character.
startsWith(line, c) == line # <<>> /\ Head(line) = c

\* Lines 759-767 of createDiffForUntracked: the header and one "+" line per
\* element of content.split("\n").
diffLines(filePath, lines) ==
  <<<<"d", "i", "f", "f", " ", "-", "-", "g", "i", "t", " ", "a", "/">> \o filePath \o <<" ", "b", "/">> \o filePath,
    <<"n", "e", "w", " ", "f", "i", "l", "e", " ", "m", "o", "d", "e", " ", "1", "0", "0", "6", "4", "4">>,
    <<"-", "-", "-", " ", "/", "d", "e", "v", "/", "n", "u", "l", "l">>,
    <<"+", "+", "+", " ", "b", "/">> \o filePath,
    <<"@", "@", " ", "-", "0", ",", "0", " ", "+", "1", ",">>
      \o Decimal(Len(lines)) \o <<" ", "@", "@">>>>
    \o [n \in 1..Len(lines) |-> <<"+">> \o lines[n]]

\* createDiffForUntracked, lines 755-770: the empty string for no content.
createDiffForUntracked(filePath, text) ==
  IF text = <<>> THEN <<>> ELSE join(diffLines(filePath, split(text, "\n")), "\n")

\* part_001, line 168: diff.split("\n").filter((l) => l.startsWith("+")).length
additionsOf(text) == Len(SelectSeq(split(text, "\n"), LAMBDA l : startsWith(l, "+")))

\* part_001, lines 171-176: the stats of the record pushed for the file.
untrackedStats(file, text) ==
  [path |-> file, additions |-> additionsOf(text), deletions |-> 0, status |-> "added"]

\* One untracked file, x, and its content.
InitUntracked ==
  /\ pc = "untracked_call"
  /\ content \in Contents
  /\ diff = <<>>
  /\ stats = <<>>
  /\ parsed = <<>>
  /\ numstatLines = <<>>
  /\ nameStatusLines = <<>>
  /\ changedFiles = <<>>
  /\ options = [all |-> FALSE, yes |-> FALSE, instructions |-> NoInstructions]
  /\ isRepo = TRUE
  /\ hasHead = TRUE
  /\ wt = [AllClean EXCEPT !["x"] = "untracked"]
  /\ history = <<>>
  /\ ops = <<>>
  /\ stagedAtStart = <<>>
  /\ instructions = NoInstructions
  /\ fileDiffs = <<>>
  /\ reply = <<>>
  /\ analysis = <<>>
  /\ drafts = <<>>
  /\ i = 0
  /\ selectedIndex = 0
  /\ shown = <<>>
  /\ thrown = NoError
  /\ exitCode = "none"
  /\ validationError = "undefined"
  /\ logged = "none"
  /\ NoRequest
  /\ NoClient
  /\ NoConfig
  /\ synthCalls = {}
  /\ NoDeslop

\* part_001, lines 165-179: one pass of the loop over status.untracked; stats
\* stays empty when no record is pushed.
UntrackedReturn ==
  /\ pc = "untracked_call"
  /\ diff' = createDiffForUntracked(<<"x">>, content)
  /\ stats' = IF createDiffForUntracked(<<"x">>, content) # <<>>
                THEN untrackedStats("x", createDiffForUntracked(<<"x">>, content))
                ELSE <<>>
  /\ fileDiffs' = IF createDiffForUntracked(<<"x">>, content) # <<>> THEN <<"x">> ELSE <<>>
  /\ pc' = "untracked_done"
  /\ UNCHANGED <<options, isRepo, wt, hasHead, history, ops, stagedAtStart,
                 instructions, reply, analysis, drafts, i, selectedIndex, shown,
                 thrown, exitCode, notices, parsed, numstatLines, nameStatusLines,
                 changedFiles, content, requesting, connecting, deslopping, resolving, synthCalls>>

NextUntracked == UntrackedReturn

SpecUntracked == InitUntracked /\ [][NextUntracked]_vars

\* ------------------------------ the requests to the generation collaborator

\* How many requests one run of the process makes at most.
MaxRequests == 2

\* How many parts a reply has at most.
MaxParts == 2

\* The four functions that send a prompt (opencode.ts, lines 204, 270, 340, 435).
Requests ==
  {"generateCommitMessage", "generateChangelog", "updateChangelogFile",
   "analyzeChangesForComposer"}

\* part_002, lines 29-33.
DEFAULT_MODELS ==
  [commit |-> [provider |-> "opencode", model |-> "gpt-5-nano"],
   changelog |-> [provider |-> "opencode", model |-> "claude-sonnet-4-5"],
   composer |-> [provider |-> "opencode", model |-> "claude-sonnet-4-5"]]

\* The text {"drafts":[]}, as characters.
ValidReplyText == <<"{", "\"", "d", "r", "a", "f", "t", "s", "\"", ":", "[", "]", "}">>

\* The grave accent of a code fence, written ' here: a string of this
\* notation cannot hold the character itself.
Fence == <<"'", "'", "'">>

\* The text {} between the fences of a json code block.
FencedReplyText == Fence \o <<"j", "s", "o", "n", "\n", "{", "}", "\n">> \o Fence

\* A text field that is not there.
NoText == <<"undefined">>

\* The texts a part carries.
PartTexts == {<<>>, <<" ">>, <<"n", "o">>, <<"{", "}">>, ValidReplyText, FencedReplyText}

\* The parts of a reply: text parts (with or without text), reasoning parts
\* that carry their words in text or in reasoning, and a part of another type.
Parts ==
  {[type |-> "text", text |-> t, reasoning |-> NoText] : t \in PartTexts \cup {NoText}}
    \cup {[type |-> "reasoning", text |-> NoText, reasoning |-> <<"{", "}">>],
          [type |-> "reasoning", text |-> NoText, reasoning |-> ValidReplyText],
          [type |-> "reasoning", text |-> <<"n", "o">>, reasoning |-> ValidReplyText],
          [type |-> "reasoning", text |-> <<>>, reasoning |-> ValidReplyText],
          [type |-> "tool", text |-> <<"n", "o">>, reasoning |-> NoText]}

\* info.error of a reply that has one: code, type and message, each optional.
InfoErrors ==
  [present : {TRUE},
   code : {Undefined, "provider_auth_error", "rate_limited"},
   type : {Undefined, "auth_error", "api_error"},
   message : {Undefined, "", "quota exceeded"}]

\* What client.session.prompt resolves to: no data, a reply with an error
\* (its parts are not read), or a reply with parts.
Results ==
  {[data |-> FALSE, error |-> NoInfoError, parts |-> <<>>]}
    \cup {[data |-> TRUE, error |-> e, parts |-> <<>>] : e \in InfoErrors}
    \cup {[data |-> TRUE, error |-> NoInfoError, parts |-> ps] :
            ps \in UNION {[1..n -> Parts] : n \in 0..MaxParts}}

\* a || b for two optional texts: the empty text and undefined are falsy.
OrElse(a, b) == IF a = NoText \/ a = <<>> THEN b ELSE a

\* What join("") makes of an element: nothing of undefined.
Joined(text) == IF text = NoText THEN <<>> ELSE text

\* parts.filter(type).map(field).join("")
RECURSIVE JoinTexts(_)
JoinTexts(texts) ==
  IF texts = <<>> THEN <<>> ELSE Joined(Head(texts)) \o JoinTexts(Tail(texts))

\* Every part is read as a text part.
extractTextOfAnyPart(parts) ==
  trim(JoinTexts([n \in 1..Len(parts) |-> parts[n].text]))

\* Lines 181-199: the text parts if they say something, else the reasoning parts.
extractTextFromParts(parts) ==
  LET textParts == JoinTexts([n \in 1..Len(SelectSeq(parts, LAMBDA part : part.type = "text"))
                                |-> SelectSeq(parts, LAMBDA part : part.type = "text")[n].text])
      reasoningParts ==
        JoinTexts([n \in 1..Len(SelectSeq(parts, LAMBDA part : part.type = "reasoning"))
                     |-> OrElse(SelectSeq(parts, LAMBDA part : part.type = "reasoning")[n].text,
                                SelectSeq(parts, LAMBDA part : part.type = "reasoning")[n].reasoning)])
  IN IF trim(textParts) # <<>> THEN trim(textParts) ELSE trim(reasoningParts)

\* text.replace(/^prefix\n?/, ""): the prefix and one line feed after it.
dropStart(text, prefix) ==
  IF Len(text) >= Len(prefix) /\ SubSeq(text, 1, Len(prefix)) = prefix
    THEN LET rest == SubSeq(text, Len(prefix) + 1, Len(text))
         IN IF rest # <<>> /\ Head(rest) = "\n" THEN Tail(rest) ELSE rest
    ELSE text

\* text.replace(/\n?FENCE$/, ""): the closing fence and one line feed before it.
dropEnd(text) ==
  IF Len(text) >= 3 /\ SubSeq(text, Len(text) - 2, Len(text)) = Fence
    THEN LET rest == SubSeq(text, 1, Len(text) - 3)
         IN IF rest # <<>> /\ rest[Len(rest)] = "\n" THEN SubSeq(rest, 1, Len(rest) - 1)
            ELSE rest
    ELSE text

\* Lines 534-538: the fences of a code block are taken off.
cleanedResponse(responseText) ==
  trim(dropEnd(dropStart(dropStart(responseText, Fence \o <<"j", "s", "o", "n">>),
                         Fence)))

\* JSON.parse on the texts the parts can make: an object with an empty list
\* of drafts, an object without fields, or a SyntaxError.
JSONparse(text) ==
  IF text = ValidReplyText THEN [ok |-> TRUE, value |-> [drafts |-> JArray(<<>>)]]
  ELSE IF text = <<"{", "}">> THEN [ok |-> TRUE, value |-> <<>>]
  ELSE [ok |-> FALSE, value |-> <<>>]

\* Every error of the reply is taken as a provider error.
IsAuthErrorNever(error) == FALSE

\* Line 497: error.code === "provider_auth_error" || error.type === "auth_error".
IsAuthError(error) == error.code = "provider_auth_error" \/ error.type = "auth_error"

\* Lines 498-504: the error thrown for info.error.
ProviderErrorMessage(error, model) ==
  IF IsAuthError(error)
    THEN SynthErrorMessage.auth \o " " \o model.provider
           \o ". Please check your credentials."
    ELSE SynthErrorMessage.provider \o ": "
           \o (IF error.message \notin {Undefined, ""} THEN error.message
               ELSE IF error.code \notin {Undefined, ""} THEN error.code
               ELSE "Unknown error")

\* Lines 531-569: what the try block throws, after "Failed to parse AI response: ".
ParseErrorMessage(responseText) ==
  IF ~JSONparse(cleanedResponse(responseText)).ok
    THEN SynthErrorMessage.parse \o ": Unexpected token"
  ELSE IF InvalidStructure(JSONparse(cleanedResponse(responseText)).value)
    THEN SynthErrorMessage.parse \o ": Invalid response structure: missing drafts array"
  ELSE "none"

\* The message of the error thrown for an empty text (lines 257, 326, 409, 526).
EmptyMessage ==
  [generateCommitMessage |-> "No commit message generated",
   generateChangelog |-> "No changelog generated",
   updateChangelogFile |-> "No updated changelog generated",
   analyzeChangesForComposer |-> SynthErrorMessage.empty]

\* The text of each result, and the message a composer reply fails with.
ResponseText == [r \in Results |-> extractTextFromParts(r.parts)]
ParseError == [r \in Results |-> ParseErrorMessage(ResponseText[r])]

\* Lines 494-569: what analyzeChangesForComposer throws for a result with
\* data, "none" if it returns.
ComposerFailure ==
  [r \in Results |->
     IF r.error.present THEN ProviderErrorMessage(r.error, DEFAULT_MODELS.composer)
     ELSE IF ResponseText[r] = <<>> THEN EmptyMessage.analyzeChangesForComposer
     ELSE ParseError[r]]

\* The variables the requests leave alone.
composing ==
  <<options, isRepo, wt, hasHead, history, ops, stagedAtStart, instructions,
    fileDiffs, reply, analysis, drafts, i, selectedIndex, shown, exitCode, notices,
    parsed, numstatLines, nameStatusLines, changedFiles, content, diff, stats,
    connecting, deslopping, resolving, synthCalls>>

InitRequest ==
  /\ pc = "request_idle"
  /\ NoRequest
  /\ NoClient
  /\ NoConfig
  /\ synthCalls = {}
  /\ NoDeslop
  /\ parsed = <<>>
  /\ numstatLines = <<>>
  /\ nameStatusLines = <<>>
  /\ changedFiles = <<>>
  /\ content = <<>>
  /\ diff = <<>>
  /\ stats = <<>>
  /\ options = [all |-> FALSE, yes |-> FALSE, instructions |-> NoInstructions]
  /\ isRepo = TRUE
  /\ hasHead = TRUE
  /\ wt = AllClean
  /\ history = <<>>
  /\ ops = <<>>
  /\ stagedAtStart = <<>>
  /\ instructions = NoInstructions
  /\ fileDiffs = <<>>
  /\ reply = <<>>
  /\ analysis = <<>>
  /\ drafts = <<>>
  /\ i = 0
  /\ selectedIndex = 0
  /\ shown = <<>>
  /\ thrown = NoError
  /\ exitCode = "none"
  /\ validationError = "undefined"
  /\ logged = "none"

\* A request throws: its caller gets the error.
RequestThrow(message) ==
  /\ thrown' = [message |-> message, from |-> request]
  /\ pc' = "request_failed"

\* One of the four functions is called.
RequestCall ==
  /\ pc \in {"request_idle", "request_returned", "request_failed"}
  /\ requests < MaxRequests
  /\ \E name \in Requests : request' = name
  /\ requests' = requests + 1
  /\ session' = 0
  /\ result' = [data |-> FALSE, error |-> NoInfoError, parts |-> <<>>]
  /\ thrown' = NoError
  /\ pc' = "session_create"
  /\ UNCHANGED <<sessions, prompts, composing>>

\* Lines 456-462 (225-231, 294-300, 368-374): client.session.create; the
\* server gives the session an id no other session has.
SessionCreate ==
  /\ pc = "session_create"
  /\ UNCHANGED <<request, requests, result, prompts, composing>>
  /\ \/ /\ session' = requests
        /\ sessions' = sessions \cup {requests}
        /\ pc' = "session_prompt"
        /\ UNCHANGED thrown
     \/ /\ RequestThrow("Failed to create session")
        /\ UNCHANGED <<session, sessions>>

\* Lines 482-488: the prompt is sent to the session of this request.
SessionPrompt ==
  /\ pc = "session_prompt"
  /\ prompts' = Append(prompts, [request |-> requests, session |-> session])
  /\ pc' = "session_replied"
  /\ UNCHANGED <<request, requests, session, sessions, thrown, composing>>
  /\ \E r \in Results : result' = r

\* Lines 490-492: a result without data.
ResponseMissing ==
  /\ pc = "session_replied"
  /\ ~result.data
  /\ RequestThrow("Failed to get AI response")
  /\ UNCHANGED <<request, requests, session, sessions, result, prompts, composing>>

\* Lines 494-506, of analyzeChangesForComposer only: info.error is thrown.
ProviderError ==
  /\ pc = "session_replied"
  /\ result.data
  /\ request = "analyzeChangesForComposer"
  /\ result.error.present
  /\ RequestThrow(ComposerFailure[result])
  /\ UNCHANGED <<request, requests, session, sessions, result, prompts, composing>>

\* Lines 508-512: the text is taken from the parts and the session deleted.
SessionDelete ==
  /\ pc = "session_replied"
  /\ result.data
  /\ request = "analyzeChangesForComposer" => ~result.error.present
  /\ sessions' = sessions \ {session}
  /\ pc' = "session_deleted"
  /\ UNCHANGED <<request, requests, session, result, prompts, thrown, composing>>

\* Lines 514-570: an empty text and a reply that is not a draft list are
\* thrown; the other functions return the text.
RequestFinish ==
  /\ pc = "session_deleted"
  /\ IF ResponseText[result] = <<>> THEN RequestThrow(EmptyMessage[request])
     ELSE IF request = "analyzeChangesForComposer" /\ ComposerFailure[result] # "none"
       THEN RequestThrow(ComposerFailure[result])
     ELSE pc' = "request_returned" /\ UNCHANGED thrown
  /\ UNCHANGED <<request, requests, session, sessions, result, prompts, composing>>

NextRequest ==
  \/ RequestCall
  \/ SessionCreate
  \/ SessionPrompt
  \/ ResponseMissing
  \/ ProviderError
  \/ SessionDelete
  \/ RequestFinish

SpecRequest == InitRequest /\ [][NextRequest]_vars

\* --------------------------------------------------- getClient and cleanup

\* How many servers one process spawns at most.
MaxServers == 2

\* How many clients one process makes at most.
MaxClients == 4

\* The signals the handlers of lines 152-159 are registered for.
Signals == {"SIGINT", "SIGTERM"}

\* The variables getClient and cleanup leave alone.
unconnected ==
  <<options, isRepo, wt, hasHead, history, ops, stagedAtStart, instructions,
    fileDiffs, reply, analysis, drafts, i, selectedIndex, shown, thrown, notices,
    parsed, numstatLines, nameStatusLines, changedFiles, content, diff, stats,
    requesting, deslopping, resolving, synthCalls>>

InitClient ==
  /\ pc = "client_idle"
  /\ clientInstance = 0
  /\ serverInstance = 0
  /\ servers = {}
  /\ handlers = 0
  /\ clients = 0
  /\ spawned = 0
  /\ environment \in [listening : BOOLEAN, installed : BOOLEAN]
  /\ NoDeslop
  /\ NoConfig
  /\ synthCalls = {}
  /\ request = "none"
  /\ requests = 0
  /\ session = 0
  /\ sessions = {}
  /\ result = [data |-> FALSE, error |-> NoInfoError, parts |-> <<>>]
  /\ prompts = <<>>
  /\ parsed = <<>>
  /\ numstatLines = <<>>
  /\ nameStatusLines = <<>>
  /\ changedFiles = <<>>
  /\ content = <<>>
  /\ diff = <<>>
  /\ stats = <<>>
  /\ options = [all |-> FALSE, yes |-> FALSE, instructions |-> NoInstructions]
  /\ isRepo = TRUE
  /\ hasHead = TRUE
  /\ wt = AllClean
  /\ history = <<>>
  /\ ops = <<>>
  /\ stagedAtStart = <<>>
  /\ instructions = NoInstructions
  /\ fileDiffs = <<>>
  /\ reply = <<>>
  /\ analysis = <<>>
  /\ drafts = <<>>
  /\ i = 0
  /\ selectedIndex = 0
  /\ shown = <<>>
  /\ thrown = NoError
  /\ exitCode = "none"
  /\ validationError = "undefined"
  /\ logged = "none"

\* serverInstance?.close(), lines 150, 153, 157 and 576: the servers that
\* run after it.
Closed == IF serverInstance # 0 THEN servers \ {serverInstance} ELSE servers

\* The "exit" handlers are skipped: the process ends with its servers left.
ProcessExitDirect(code) ==
  /\ exitCode' = code
  /\ pc' = "exited"
  /\ UNCHANGED servers

\* process.exit(code): the "exit" handlers registered so far (lines 149-151)
\* run, then the process ends.
ProcessExit(code) ==
  /\ servers' = IF handlers > 0 THEN Closed ELSE servers
  /\ exitCode' = code
  /\ pc' = "exited"

\* Lines 107-109: a client is kept and is returned.
GetClientKept ==
  /\ pc = "client_idle"
  /\ clientInstance # 0
  /\ UNCHANGED <<pc, exitCode, connecting, unconnected>>

\* Lines 107-109: no client is kept.
GetClient ==
  /\ pc = "client_idle"
  /\ clientInstance = 0
  /\ clients < MaxClients
  /\ pc' = "client_connect"
  /\ UNCHANGED <<exitCode, connecting, unconnected>>

\* Lines 112-122: a server that listens already gets a new client, which is kept.
ConnectExisting ==
  /\ pc = "client_connect"
  /\ IF environment.listening
       THEN /\ clients' = clients + 1
            /\ clientInstance' = clients + 1
            /\ pc' = "client_idle"
       ELSE /\ pc' = "client_installed"
            /\ UNCHANGED <<clients, clientInstance>>
  /\ UNCHANGED <<serverInstance, servers, handlers, spawned, environment, exitCode,
                 unconnected>>

\* Lines 125-132: without the opencode CLI the process exits with 1.
CheckInstalled ==
  /\ pc = "client_installed"
  /\ IF environment.installed
       THEN pc' = "client_spawn" /\ UNCHANGED <<exitCode, servers>>
       ELSE ProcessExit("1")
  /\ UNCHANGED <<clientInstance, serverInstance, handlers, clients, spawned,
                 environment, unconnected>>

\* Lines 135-141 and 163-167: createOpencode spawns a server and both handles
\* are kept; if it throws, the process exits with 1.
SpawnServer ==
  /\ pc = "client_spawn"
  /\ spawned < MaxServers
  /\ \/ /\ spawned' = spawned + 1
        /\ clients' = clients + 1
        /\ clientInstance' = clients + 1
        /\ serverInstance' = spawned + 1
        /\ servers' = servers \cup {spawned + 1}
        /\ pc' = "client_auth"
        /\ UNCHANGED exitCode
     \/ /\ ProcessExit("1")
        /\ UNCHANGED <<spawned, clients, clientInstance, serverInstance>>
  /\ UNCHANGED <<handlers, environment, unconnected>>

\* Lines 143-161: a failed authentication check exits with 1; after a passed
\* one the handlers are registered and the client returned.
CheckAuth ==
  /\ pc = "client_auth"
  /\ \/ /\ ProcessExit("1")
        /\ UNCHANGED handlers
     \/ /\ handlers' = handlers + 1
        /\ pc' = "client_idle"
        /\ UNCHANGED <<exitCode, servers>>
  /\ UNCHANGED <<clientInstance, serverInstance, clients, spawned, environment,
                 unconnected>>

\* A cleanup that closes the server and keeps the client handle.
CleanupKeepsClient ==
  /\ pc = "client_idle"
  /\ servers' = Closed
  /\ serverInstance' = 0
  /\ UNCHANGED <<pc, exitCode, clientInstance, handlers, clients, spawned,
                 environment, unconnected>>

\* Lines 575-579.
Cleanup ==
  /\ pc = "client_idle"
  /\ servers' = Closed
  /\ serverInstance' = 0
  /\ clientInstance' = 0
  /\ UNCHANGED <<pc, exitCode, handlers, clients, spawned, environment, unconnected>>

\* The command ends with process.exit, after cleanup() or without it.
CommandExit ==
  /\ pc = "client_idle"
  /\ \E code \in {"0", "1"} : ProcessExit(code)
  /\ UNCHANGED <<clientInstance, serverInstance, handlers, clients, spawned,
                 environment, unconnected>>

\* A signal arrives while the process runs. With the handlers of lines
\* 152-159 registered, the server is closed and process.exit(0) called;
\* without them the signal ends the process and no "exit" handler runs.
Signal ==
  /\ pc # "exited"
  /\ \E signal \in Signals :
       IF handlers > 0
         THEN servers' = Closed /\ exitCode' = "0" /\ pc' = "exited"
         ELSE ProcessExitDirect(signal)
  /\ UNCHANGED <<clientInstance, serverInstance, handlers, clients, spawned,
                 environment, unconnected>>

NextClient ==
  \/ GetClientKept
  \/ GetClient
  \/ ConnectExisting
  \/ CheckInstalled
  \/ SpawnServer
  \/ CheckAuth
  \/ Cleanup
  \/ CommandExit
  \/ Signal

SpecClient == InitClient /\ [][NextClient]_vars

\* ------------------------------- the deslop workflow with a patch (part_005)

\* The contents a path has: 0 where it does not exist, 1 and 2 for two texts.
Versions == {0, 1, 2}

\* HEAD, the index and the working tree, path by path.
Trees == [Paths -> [head : {0, 1}, index : Versions, work : Versions]]

\* git diff --cached --name-only and git diff --name-only.
StagedIn(tr) == {f \in Paths : tr[f].index # tr[f].head}
UnstagedIn(tr) == {f \in Paths : tr[f].work # tr[f].index /\ tr[f].index # 0}

\* getStagedDiff, line 403: what git diff --cached prints is made of the HEAD
\* and the index content of the staged paths.
getStagedDiff(tr) == {<<f, tr[f].head, tr[f].index>> : f \in StagedIn(tr)}

\* What a patch says of one path: the content before and the content after.
FileDiffs == {d \in [path : Paths, pre : Versions, post : Versions] : d.pre # d.post}

\* The patches: at most one diff for a path, at least one diff.
Patches ==
  {ds \in SUBSET FileDiffs :
     ds # {} /\ \A a, b \in ds : a.path = b.path => a = b}

DiffGit == <<"d", "i", "f", "f", " ", "-", "-", "g", "i", "t", " ">>

\* The text of the diff of one path, with the "diff --git" line (style
\* "git") or as a plain unified diff that starts with "--- ".
FileDiffText(d, style) ==
  (IF style = "git"
     THEN DiffGit \o <<"a", "/", d.path, " ", "b", "/", d.path, "\n">>
     ELSE <<>>)
    \o <<"-", "-", "-", " ", "a", "/", d.path, "\n",
         "+", "+", "+", " ", "b", "/", d.path, "\n", "-">>
    \o Decimal(d.pre) \o <<"\n", "+">> \o Decimal(d.post) \o <<"\n">>

\* The text of a patch: its diffs in the order of the paths.
RECURSIVE PatchTextFrom(_, _, _)
PatchTextFrom(ds, order, style) ==
  IF order = <<>> THEN <<>>
  ELSE (IF \E d \in ds : d.path = Head(order)
          THEN FileDiffText(CHOOSE d \in ds : d.path = Head(order), style)
          ELSE <<>>)
         \o PatchTextFrom(ds, Tail(order), style)

PatchText(ds, style) == PatchTextFrom(ds, PathOrder, style)

\* A reply that is a sentence, and one with a rule of three hyphens in it.
SentenceText == <<"o", "k">>
RuledText == <<"o", "k", "\n", "-", "-", "-", "\n", "n", "o">>

\* The texts generateDeslopPatch returns as the patch: none, a sentence, a
\* text with a rule, and the patches in both styles.
PatchTexts ==
  {<<>>, SentenceText, RuledText}
    \cup {PatchText(ds, "git") : ds \in Patches}
    \cup {PatchText(ds, "plain") : ds \in {p \in Patches : Cardinality(p) = 1}}

DeslopResults ==
  [patch : PatchTexts, summary : {"cleaned"}]
    \cup [patch : {<<>>, SentenceText, RuledText}, summary : {""}]

\* What git makes of a patch text: its diffs, none for a text that is no patch.
ParsedPatch ==
  [text \in PatchTexts |->
     IF \E ds \in Patches : text \in {PatchText(ds, "git"), PatchText(ds, "plain")}
       THEN CHOOSE ds \in Patches : text \in {PatchText(ds, "git"), PatchText(ds, "plain")}
       ELSE {}]

\* Whether prefix stands in text at position k.
StartsAt(text, k, prefix) ==
  /\ k + Len(prefix) - 1 <= Len(text)
  /\ SubSeq(text, k, k + Len(prefix) - 1) = prefix

\* Where the lines of a text start (the flag m of the two expressions).
LineStarts(text) == {k \in 1..Len(text) : k = 1 \/ text[k - 1] = "\n"}

\* Lines 25-27: /^diff --git /m.test(patch) || /^---\s/m.test(patch).
hasValidPatch(patch) ==
  \E k \in LineStarts(patch) :
    \/ StartsAt(patch, k, DiffGit)
    \/ /\ StartsAt(patch, k, <<"-", "-", "-">>)
       /\ k + 3 <= Len(patch)
       /\ patch[k + 3] \in WhiteSpace

\* Line 181: result.patch && hasValidPatch(result.patch).
IsPatch == [text \in PatchTexts |-> text # <<>> /\ hasValidPatch(text)]

\* The content git apply expects of a path and the content it leaves.
PatchFrom(d, reverse) == IF reverse THEN d.post ELSE d.pre

\* The reversed patch leaves what the patch leaves.
PatchToPost(d, reverse) == d.post

PatchTo(d, reverse) == IF reverse THEN d.pre ELSE d.post

\* git apply --index [--reverse]: the patch applies if the text is a patch
\* and every path it names has, in the index and in the working tree, the
\* content the patch starts from.
Applies(tr, text, reverse) ==
  /\ ParsedPatch[text] # {}
  /\ \A d \in ParsedPatch[text] :
       tr[d.path].index = PatchFrom(d, reverse) /\ tr[d.path].work = tr[d.path].index

\* The index and the working tree after git apply --index.
GitApply(tr, text, reverse) ==
  [f \in Paths |->
     IF \E d \in ParsedPatch[text] : d.path = f
       THEN LET d == CHOOSE e \in ParsedPatch[text] : e.path = f
            IN [head |-> tr[f].head, index |-> PatchTo(d, reverse),
                work |-> PatchTo(d, reverse)]
       ELSE tr[f]]

\* One call of applyPatch (lines 29-42), as the workflow notes it.
Applied(reverse, ok) == [op |-> "applyPatch", reverse |-> reverse, ok |-> ok]

\* The variables the deslop workflow leaves alone.
undeslopped ==
  <<isRepo, wt, hasHead, history, stagedAtStart, instructions, fileDiffs, reply,
    analysis, drafts, i, selectedIndex, shown, thrown, exitCode, validationError,
    parsed, numstatLines, nameStatusLines, changedFiles, content, diff, stats,
    requesting, connecting, resolving, synthCalls>>

\* A run of maybeDeslopStagedChanges: the repository, options.yes and
\* config.commit.autoDeslop.
InitDeslopCommon ==
  /\ tree \in Trees
  /\ autoDeslop \in BOOLEAN
  /\ options \in [all : {FALSE}, yes : BOOLEAN, instructions : {NoInstructions}]
  /\ stagedDiff = {}
  /\ stagedFiles = {}
  /\ deslopResult = NoDeslopResult
  /\ deslopSession = NoDeslopSession
  /\ returned = "none"
  /\ action = "none"
  /\ NoRequest
  /\ NoClient
  /\ NoConfig
  /\ synthCalls = {}
  /\ parsed = <<>>
  /\ numstatLines = <<>>
  /\ nameStatusLines = <<>>
  /\ changedFiles = <<>>
  /\ content = <<>>
  /\ diff = <<>>
  /\ stats = <<>>
  /\ isRepo = TRUE
  /\ hasHead = TRUE
  /\ wt = AllClean
  /\ history = <<>>
  /\ ops = <<>>
  /\ stagedAtStart = <<>>
  /\ instructions = NoInstructions
  /\ fileDiffs = <<>>
  /\ reply = <<>>
  /\ analysis = <<>>
  /\ drafts = <<>>
  /\ i = 0
  /\ selectedIndex = 0
  /\ shown = <<>>
  /\ thrown = NoError
  /\ exitCode = "none"
  /\ validationError = "undefined"
  /\ logged = "none"

InitDeslop == pc = "deslop_call" /\ InitDeslopCommon

\* maybeDeslopStagedChanges returns.
DeslopReturn(value) ==
  /\ returned' = value
  /\ pc' = "deslop_done"

\* Lines 236-240: the error is shown with p.cancel and "abort" returned.
DeslopFailed(message) ==
  /\ logged' = message
  /\ DeslopReturn("abort")

\* A reverted cleanup always lets the commit go on.
RevertedReturnContinue(answer) == "continue"

\* Lines 222-232 (part_004: 227-241): what is returned after the changes were
\* reverted, on a cancelled prompt and on reject.
RevertedReturn(answer) == IF answer = "cancel" THEN "abort" ELSE "continue"

\* Lines 119-150: whether to deslop (asked unless --yes), and the staged diff.
DeslopAsk ==
  /\ pc = "deslop_call"
  /\ UNCHANGED <<tree, autoDeslop, stagedFiles, deslopResult, deslopSession, options,
                 ops, logged, undeslopped, action>>
  /\ \E confirm \in IF options.yes THEN {IF autoDeslop THEN "yes" ELSE "no"}
                     ELSE {"cancel", "yes", "no"} :
       IF confirm = "cancel" THEN DeslopReturn("abort") /\ UNCHANGED stagedDiff
       ELSE IF confirm = "no" THEN DeslopReturn("continue") /\ UNCHANGED stagedDiff
       ELSE /\ stagedDiff' = getStagedDiff(tree)
            /\ IF getStagedDiff(tree) = {} THEN DeslopReturn("continue")
               ELSE /\ pc' = IF options.yes THEN "deslop_generate" ELSE "deslop_extra"
                    /\ UNCHANGED returned

\* Lines 152-168: the extra instructions are asked for, unless --yes.
DeslopExtra ==
  /\ pc = "deslop_extra"
  /\ UNCHANGED <<tree, autoDeslop, stagedDiff, stagedFiles, deslopResult,
                 deslopSession, options, ops, logged, undeslopped, action>>
  /\ \/ DeslopReturn("abort")
     \/ pc' = "deslop_generate" /\ UNCHANGED returned

\* Lines 170-179: generateDeslopPatch returns a patch and a summary, or throws.
DeslopGenerate ==
  /\ pc = "deslop_generate"
  /\ UNCHANGED <<tree, autoDeslop, stagedDiff, stagedFiles, deslopSession, options,
                 ops, undeslopped, action>>
  /\ \/ DeslopFailed("generateDeslopPatch failed") /\ UNCHANGED deslopResult
     \/ /\ \E r \in DeslopResults : deslopResult' = r
        /\ pc' = "deslop_apply"
        /\ UNCHANGED <<returned, logged>>

\* Lines 181-203: a reply that passes hasValidPatch is applied; without one
\* there is nothing to do; with --yes the applied patch is kept.
DeslopApply ==
  /\ pc = "deslop_apply"
  /\ UNCHANGED <<autoDeslop, stagedDiff, stagedFiles, deslopResult, deslopSession,
                 options, undeslopped, action>>
  /\ IF IsPatch[deslopResult.patch]
       THEN \/ /\ Applies(tree, deslopResult.patch, FALSE)
               /\ tree' = GitApply(tree, deslopResult.patch, FALSE)
               /\ ops' = Append(ops, Applied(FALSE, TRUE))
               /\ IF options.yes THEN DeslopReturn("updated")
                  ELSE pc' = "deslop_review" /\ UNCHANGED returned
               /\ UNCHANGED logged
            \/ /\ ops' = Append(ops, Applied(FALSE, FALSE))
               /\ DeslopFailed(GitError("applyPatch").message)
               /\ UNCHANGED tree
       ELSE /\ DeslopReturn("continue")
            /\ UNCHANGED <<tree, ops, logged>>

\* Lines 205-235: after the review the changes are kept, or the patch is
\* applied in reverse on reject and on cancel.
DeslopReview ==
  /\ pc = "deslop_review"
  /\ UNCHANGED <<autoDeslop, stagedDiff, stagedFiles, deslopResult, deslopSession,
                 options, undeslopped>>
  /\ \E answer \in {"cancel", "reject", "accept"} :
       /\ action' = answer
       /\ IF answer = "accept"
            THEN DeslopReturn("updated") /\ UNCHANGED <<tree, ops, logged>>
            ELSE \/ /\ Applies(tree, deslopResult.patch, TRUE)
                    /\ tree' = GitApply(tree, deslopResult.patch, TRUE)
                    /\ ops' = Append(ops, Applied(TRUE, TRUE))
                    /\ DeslopReturn(RevertedReturn(answer))
                    /\ UNCHANGED logged
                 \/ /\ ops' = Append(ops, Applied(TRUE, FALSE))
                    /\ DeslopFailed(GitError("applyPatch").message)
                    /\ UNCHANGED tree

NextDeslop ==
  \/ DeslopAsk
  \/ DeslopExtra
  \/ DeslopGenerate
  \/ DeslopApply
  \/ DeslopReview

SpecDeslop == InitDeslop /\ [][NextDeslop]_vars

\* ------------------------------ the deslop workflow with a session (part_004)

\* getStatus, lines 372-398, on a tree.
StatusOfTree(tr) ==
  [staged |-> StagedIn(tr), unstaged |-> UnstagedIn(tr),
   untracked |-> {f \in Paths : tr[f].index = 0 /\ tr[f].head = 0 /\ tr[f].work # 0}]

\* stageFiles, lines 424-428: git add of the files; an empty list is left alone.
StageFilesIn(tr, files) ==
  [f \in Paths |->
     IF f \in files THEN [head |-> tr[f].head, index |-> tr[f].work, work |-> tr[f].work]
     ELSE tr[f]]

\* The working tree contents, path by path.
WorkOf(tr) == {<<f, tr[f].work>> : f \in Paths}

\* revert() of a session whose edits are in place: the working tree gets the
\* contents it had when runDeslopEdits was called.
RevertIn(tr, before) ==
  [f \in Paths |->
     [head |-> tr[f].head, index |-> tr[f].index,
      work |-> CHOOSE v \in Versions : <<f, v>> \in before]]

\* The error of a revert() that has nothing to revert.
NothingToRevert == "Nothing to revert"

\* One call of revert(), stageFiles() or close(), as the workflow notes it:
\* for a revert, whether the edits were in place when it was called.
Called(name, inPlace, ok) == [op |-> name, inPlace |-> inPlace, ok |-> ok]

InitEdits == pc = "edits_call" /\ InitDeslopCommon

\* Lines 91-123 of part_004, as lines 119-148 of part_005.
EditsAsk ==
  /\ pc = "edits_call"
  /\ UNCHANGED <<tree, autoDeslop, stagedFiles, deslopResult, deslopSession, options,
                 ops, logged, undeslopped, action>>
  /\ \E confirm \in IF options.yes THEN {IF autoDeslop THEN "yes" ELSE "no"}
                     ELSE {"cancel", "yes", "no"} :
       IF confirm = "cancel" THEN DeslopReturn("abort") /\ UNCHANGED stagedDiff
       ELSE IF confirm = "no" THEN DeslopReturn("continue") /\ UNCHANGED stagedDiff
       ELSE /\ stagedDiff' = getStagedDiff(tree)
            /\ IF getStagedDiff(tree) = {} THEN DeslopReturn("continue")
               ELSE /\ pc' = IF options.yes THEN "edits_status" ELSE "edits_extra"
                    /\ UNCHANGED returned

\* Lines 127-143.
EditsExtra ==
  /\ pc = "edits_extra"
  /\ UNCHANGED <<tree, autoDeslop, stagedDiff, stagedFiles, deslopResult,
                 deslopSession, options, ops, logged, undeslopped, action>>
  /\ \/ DeslopReturn("abort")
     \/ pc' = "edits_status" /\ UNCHANGED returned

\* Lines 145-169: the staged files are noted; staged files with unstaged
\* edits need a confirmation, unless --yes.
EditsStatus ==
  /\ pc = "edits_status"
  /\ stagedFiles' = StatusOfTree(tree).staged
  /\ UNCHANGED <<tree, autoDeslop, stagedDiff, deslopResult, deslopSession, options,
                 ops, logged, undeslopped, action>>
  /\ IF StatusOfTree(tree).unstaged \cap StatusOfTree(tree).staged # {} /\ ~options.yes
       THEN \/ DeslopReturn("abort")
            \/ pc' = "edits_run" /\ UNCHANGED returned
       ELSE pc' = "edits_run" /\ UNCHANGED returned

\* Lines 171-183 and 247-260: runDeslopEdits edits files of the working tree
\* and returns a session, or throws and leaves deslopSession null.
EditsRun ==
  /\ pc = "edits_run"
  /\ UNCHANGED <<autoDeslop, stagedDiff, stagedFiles, deslopResult, options, ops,
                 undeslopped, action>>
  /\ \/ /\ DeslopFailed("runDeslopEdits failed")
        /\ UNCHANGED <<tree, deslopSession>>
     \/ /\ \E edited \in [Paths -> Versions] :
             tree' = [f \in Paths |-> [head |-> tree[f].head, index |-> tree[f].index,
                                       work |-> edited[f]]]
        /\ \E summary \in {"", "cleaned"} :
             deslopSession' = [open |-> TRUE, inPlace |-> TRUE, before |-> WorkOf(tree),
                               summary |-> summary]
        /\ pc' = "edits_restage"
        /\ UNCHANGED <<returned, logged>>

\* The catch block is entered with the error.
EditsThrow(message) ==
  /\ logged' = message
  /\ pc' = "edits_catch"
  /\ UNCHANGED returned

\* Lines 185-209: the staged files are staged again; without a change of the
\* staged diff, and with --yes, the session is closed and the function returns.
EditsRestage ==
  /\ pc = "edits_restage"
  /\ UNCHANGED <<autoDeslop, stagedDiff, stagedFiles, deslopResult, options,
                 undeslopped, action>>
  /\ \/ /\ ops' = Append(ops, Called("stageFiles", FALSE, FALSE))
        /\ EditsThrow(GitError("stageFiles").message)
        /\ UNCHANGED <<tree, deslopSession>>
     \/ /\ tree' = StageFilesIn(tree, stagedFiles)
        /\ LET updatedDiff == getStagedDiff(StageFilesIn(tree, stagedFiles))
               didChange == updatedDiff # {} /\ updatedDiff # stagedDiff
           IN IF ~didChange \/ options.yes
                THEN /\ ops' = ops \o <<Called("stageFiles", FALSE, TRUE),
                                        Called("close", FALSE, TRUE)>>
                     /\ deslopSession' = [deslopSession EXCEPT !.open = FALSE]
                     /\ DeslopReturn(IF ~didChange THEN "continue" ELSE "updated")
                ELSE /\ ops' = Append(ops, Called("stageFiles", FALSE, TRUE))
                     /\ pc' = "edits_review"
                     /\ UNCHANGED <<deslopSession, returned>>
        /\ UNCHANGED logged

\* Lines 211-246: the changes are kept, or reverted on reject and on cancel,
\* after which the staged files are staged again and the session closed.
EditsReview ==
  /\ pc = "edits_review"
  /\ UNCHANGED <<autoDeslop, stagedDiff, stagedFiles, deslopResult, options,
                 undeslopped>>
  /\ \E answer \in {"cancel", "reject", "accept"} :
       /\ action' = answer
       /\ IF answer = "accept"
            THEN /\ ops' = Append(ops, Called("close", FALSE, TRUE))
                 /\ deslopSession' = [deslopSession EXCEPT !.open = FALSE]
                 /\ DeslopReturn("updated")
                 /\ UNCHANGED <<tree, logged>>
            ELSE \/ /\ ops' = Append(ops, Called("revert", TRUE, FALSE))
                    /\ EditsThrow("revert failed")
                    /\ UNCHANGED <<tree, deslopSession>>
                 \/ /\ ops' = ops \o <<Called("revert", TRUE, TRUE),
                                       Called("stageFiles", FALSE, FALSE)>>
                    /\ tree' = RevertIn(tree, deslopSession.before)
                    /\ deslopSession' = [deslopSession EXCEPT !.inPlace = FALSE]
                    /\ EditsThrow(GitError("stageFiles").message)
                 \/ /\ ops' = ops \o <<Called("revert", TRUE, TRUE),
                                       Called("stageFiles", FALSE, TRUE),
                                       Called("close", FALSE, TRUE)>>
                    /\ tree' = StageFilesIn(RevertIn(tree, deslopSession.before), stagedFiles)
                    /\ deslopSession' = [deslopSession EXCEPT !.inPlace = FALSE,
                                                             !.open = FALSE]
                    /\ DeslopReturn(RevertedReturn(answer))
                    /\ UNCHANGED logged

\* The cleanup calls of a catch block that does not close the session.
CleanupCallsOnly(calls) == calls

\* Lines 249-256: the cleanup calls of the catch block, then close().
CatchCalls(calls) == calls \o <<Called("close", FALSE, TRUE)>>

\* Lines 247-260, with a session: revert and stageFiles are tried and their
\* errors dropped, the session is closed, the first error is shown.
EditsCatch ==
  /\ pc = "edits_catch"
  /\ UNCHANGED <<autoDeslop, stagedDiff, stagedFiles, deslopResult, options, logged,
                 undeslopped, action>>
  /\ deslopSession' = [deslopSession EXCEPT !.inPlace = FALSE, !.open = FALSE]
  /\ DeslopReturn("abort")
  /\ IF ~deslopSession.inPlace
       THEN /\ ops' = ops \o CatchCalls(<<Called("revert", FALSE, FALSE)>>)
            /\ UNCHANGED tree
       ELSE \/ /\ ops' = ops \o CatchCalls(<<Called("revert", TRUE, FALSE)>>)
               /\ UNCHANGED tree
            \/ /\ ops' = ops \o CatchCalls(<<Called("revert", TRUE, TRUE),
                                             Called("stageFiles", FALSE, FALSE)>>)
               /\ tree' = RevertIn(tree, deslopSession.before)
            \/ /\ ops' = ops \o CatchCalls(<<Called("revert", TRUE, TRUE),
                                             Called("stageFiles", FALSE, TRUE)>>)
               /\ tree' = StageFilesIn(RevertIn(tree, deslopSession.before), stagedFiles)

NextEdits ==
  \/ EditsAsk
  \/ EditsExtra
  \/ EditsStatus
  \/ EditsRun
  \/ EditsRestage
  \/ EditsReview
  \/ EditsCatch

SpecEdits == InitEdits /\ [][NextEdits]_vars

\* maybeDeslopStagedChanges in either version.
InitCleanup == InitDeslop \/ InitEdits

NextCleanup == NextDeslop \/ NextEdits

SpecCleanup == InitCleanup /\ [][NextCleanup]_vars

\* ----------------------------------------------- resolveModelConfig (part_002)

\* The three task types of ModelConfig.
Tasks == {"commit", "changelog", "composer"}

\* The configurations a source gives: for each task, the model of that
\* source or none.
ModelsOf(source) ==
  [Tasks -> {NoSelection, [provider |-> source, model |-> "m"]}]

\* A models.json: missing, not JSON, the JSON text null, or an object.
ModelFiles(source) ==
  {[kind |-> k, config |-> NoModels] : k \in {"missing", "unparsable", "null"}}
    \cup {[kind |-> "object", config |-> c] : c \in ModelsOf(source)}

\* readModelConfig, lines 221-231: {} for a missing file and for a file
\* JSON.parse throws on; else what JSON.parse returns, which for the text
\* null is null: reading a field of it throws a TypeError (ok is FALSE).
readModelConfig(file) ==
  IF file.kind = "object" THEN [ok |-> TRUE, config |-> file.config]
  ELSE IF file.kind = "null" THEN [ok |-> FALSE, config |-> NoModels]
  ELSE [ok |-> TRUE, config |-> NoModels]

\* if (source.task) config.task = source.task, for the three tasks.
Overlay(config, source) ==
  [task \in Tasks |-> IF source[task] # NoSelection THEN source[task] ELSE config[task]]

\* Lines 260-273: the repository file is read inside a try block and only
\* in a repository; an error leaves the configuration as it is.
WithRepoConfig(config, files, inRepo) ==
  IF inRepo /\ readModelConfig(files.repo).ok
    THEN Overlay(config, readModelConfig(files.repo).config)
    ELSE config

\* Lines 247-281: defaults, global file, repository file, flags.
resolveModelConfig(overrides, files, inRepo) ==
  Overlay(WithRepoConfig(Overlay(DEFAULT_MODELS, readModelConfig(files.global).config),
                         files, inRepo),
          overrides)

\* The variables resolveModelConfig leaves alone.
unresolved ==
  <<options, isRepo, wt, hasHead, history, ops, stagedAtStart, instructions,
    fileDiffs, reply, analysis, drafts, i, selectedIndex, shown, exitCode, notices,
    parsed, numstatLines, nameStatusLines, changedFiles, content, diff, stats,
    requesting, connecting, deslopping, synthCalls>>

InitConfig ==
  /\ pc = "config_call"
  /\ modelFiles \in [global : ModelFiles("global"), repo : ModelFiles("repo")]
  /\ flags \in ModelsOf("flag")
  /\ resolved = NoModels
  /\ synthCalls = {}
  /\ isRepo \in BOOLEAN
  /\ NoRequest
  /\ NoClient
  /\ NoDeslop
  /\ parsed = <<>>
  /\ numstatLines = <<>>
  /\ nameStatusLines = <<>>
  /\ changedFiles = <<>>
  /\ content = <<>>
  /\ diff = <<>>
  /\ stats = <<>>
  /\ options = [all |-> FALSE, yes |-> FALSE, instructions |-> NoInstructions]
  /\ hasHead = isRepo
  /\ wt = AllClean
  /\ history = <<>>
  /\ ops = <<>>
  /\ stagedAtStart = <<>>
  /\ instructions = NoInstructions
  /\ fileDiffs = <<>>
  /\ reply = <<>>
  /\ analysis = <<>>
  /\ drafts = <<>>
  /\ i = 0
  /\ selectedIndex = 0
  /\ shown = <<>>
  /\ thrown = NoError
  /\ exitCode = "none"
  /\ validationError = "undefined"
  /\ logged = "none"

\* Lines 255-258: reading a field of what the global file gave throws.
ConfigThrow ==
  /\ pc = "config_call"
  /\ ~readModelConfig(modelFiles.global).ok
  /\ thrown' = [message |-> "Cannot read properties of null (reading 'commit')",
                from |-> "resolveModelConfig"]
  /\ pc' = "config_thrown"
  /\ UNCHANGED <<resolving, unresolved>>

\* Line 280: the configuration is returned.
ConfigReturn ==
  /\ pc = "config_call"
  /\ readModelConfig(modelFiles.global).ok
  /\ resolved' = resolveModelConfig(flags, modelFiles, isRepo)
  /\ pc' = "config_done"
  /\ UNCHANGED <<modelFiles, flags, thrown, unresolved>>

NextConfig == ConfigReturn \/ ConfigThrow

SpecConfig == InitConfig /\ [][NextConfig]_vars

\* ================================================================ claims

\* How often path f is listed in the drafts ds.
RECURSIVE Occurrences(_, _)
Occurrences(ds, f) ==
  IF ds = <<>> THEN 0
  ELSE Len(FilterIn(Head(ds).files, {f})) + Occurrences(Tail(ds), f)

\* The input paths no draft of ds lists, in input order.
Unreferenced(files, ds) == FilterIn(files, Paths \ AllFilesInDrafts(ds))

\* C1: the draft set composeCommand builds from an accepted reply lists every
\* input file in exactly one draft, once, and lists no other path.
C1_ExactCover ==
  pc = "select" =>
    \A f \in Paths : Occurrences(drafts, f) = IF f \in Range(fileDiffs) THEN 1 ELSE 0

\* C2: whenever analyzeChangesForComposer returns, every input path is listed
\* in at least one returned draft, whatever the reply referenced.
C2_EveryInputListed ==
  pc = "synth_done" => Range(fileDiffs) \subseteq AllFilesInDrafts(analysis)

\* C2 witness: the call returned for a reply with no draft at all and two input files.
C2_Witness ==
  pc = "synth_done" /\ reply = <<>> /\ Len(fileDiffs) = 2 /\ Len(analysis) = 1

\* C3: with at least one draft in the reply the unreferenced input paths are
\* appended, in input order, to the last draft and the earlier drafts are as
\* received; with no draft the result is the one fallback draft holding all
\* input paths.
C3_RepairPlacement ==
  pc = "synth_done" =>
    IF Len(reply) > 0
      THEN /\ Len(analysis) = Len(reply)
           /\ \A k \in 1..(Len(reply) - 1) : analysis[k] = reply[k]
           /\ analysis[Len(reply)].id = reply[Len(reply)].id
           /\ analysis[Len(reply)].message = reply[Len(reply)].message
           /\ analysis[Len(reply)].files =
                reply[Len(reply)].files \o Unreferenced(fileDiffs, reply)
      ELSE analysis =
             <<[id |-> "1", message |-> "chore: miscellaneous changes", files |-> fileDiffs]>>

\* C3 witness: a reply of two drafts, the first one listing a file, with an
\* input file left unreferenced, has been repaired.
C3_Witness ==
  /\ pc = "synth_done"
  /\ Len(reply) = 2
  /\ reply[1].files # <<>>
  /\ Unreferenced(fileDiffs, reply) # <<>>
  /\ Len(analysis[2].files) > Len(reply[2].files)

\* The applier is at work, has finished or has failed.
Applying == pc \in {"apply_unstage", "apply_stage", "apply_commit", "thrown"} \/ shown # <<>>

\* A draft set as the data model asks for it: every input file in exactly one
\* draft, no other path in any, no draft without a file.
ValidDraftSet ==
  /\ \A f \in Paths : Occurrences(drafts, f) = IF f \in Range(fileDiffs) THEN 1 ELSE 0
  /\ \A k \in 1..Len(drafts) : drafts[k].files # <<>>

\* C4: for a valid draft set, when commit is called for draft i the index
\* holds exactly the files of draft i, and between the applier's steps it
\* never holds a file of another draft, whatever the unstage step did (a
\* repository without a commit included).
C4_IndexIsOneDraft ==
  ValidDraftSet =>
    /\ pc = "apply_commit" => Staged(wt) = Range(filePaths(drafts[i]))
    /\ pc = "apply_stage" => Staged(wt) \subseteq Range(filePaths(drafts[i]))

\* The three helper calls of applyDraft for draft k.
DraftOps(k) ==
  <<Op("unstageAll", <<>>, ""), Op("stageFiles", filePaths(drafts[k]), ""),
    Op("commit", <<>>, drafts[k].message)>>

RECURSIVE OpsUpTo(_)
OpsUpTo(n) == IF n = 0 THEN <<>> ELSE OpsUpTo(n - 1) \o DraftOps(n)

\* The helper calls the applier has issued: the calls after the stageAll of
\* the command's start.
ApplierOps == SelectSeq(ops, LAMBDA o : o.op # "stageAll")

\* C5: the applier takes the drafts in list order and issues, per draft,
\* unstageAll, stageFiles of that draft's paths and commit of that draft's
\* message, in that order; when it ends without a failure the history holds one
\* commit per draft, in draft order.
C5_DraftOrder ==
  /\ pc = "apply_unstage" => ApplierOps = OpsUpTo(i - 1)
  /\ pc = "apply_stage" => ApplierOps = OpsUpTo(i - 1) \o SubSeq(DraftOps(i), 1, 1)
  /\ pc = "apply_commit" => ApplierOps = OpsUpTo(i - 1) \o SubSeq(DraftOps(i), 1, 2)
  /\ pc = "thrown" /\ thrown.from = "stageFiles" =>
       ApplierOps = OpsUpTo(i - 1) \o SubSeq(DraftOps(i), 1, 2)
  /\ pc = "thrown" /\ thrown.from = "commit" => ApplierOps = OpsUpTo(i)
  /\ pc = "exit" /\ shown # <<>> =>
       /\ ApplierOps = OpsUpTo(Len(drafts))
       /\ Len(history) = Len(drafts)
       /\ \A k \in 1..Len(drafts) : history[k].message = drafts[k].message

\* C5 witness: the applier has ended without a failure on two drafts.
C5_Witness ==
  pc = "exit" /\ shown # <<>> /\ Len(drafts) = 2 /\ Len(history) = 2 /\ Len(ApplierOps) = 6

\* C6: once staging or commit has failed for draft i the applier has stopped:
\* the failing call is the last call issued, no later draft is touched, and the
\* commits of the drafts before i are in the history.
C6_StopsAtFailure ==
  (\E n \in 1..Len(shown) : shown[n].line = "failed") =>
    /\ pc = "thrown"
    /\ shown[Len(shown)] = [line |-> "failed", n |-> i, of |-> Len(drafts)]
    /\ \A n \in 1..(Len(shown) - 1) : shown[n].line = "ok" /\ shown[n].n = n
    /\ Len(shown) = i
    /\ ApplierOps = OpsUpTo(i - 1) \o
         SubSeq(DraftOps(i), 1, IF thrown.from = "commit" THEN 3 ELSE 2)
    /\ Len(history) = i - 1
    /\ \A k \in 1..(i - 1) : history[k].message = drafts[k].message

\* C6 witness: the commit of the second of three drafts has failed.
C6_Witness ==
  /\ pc = "thrown" /\ thrown.from = "commit"
  /\ i = 2 /\ Len(drafts) = 3 /\ Len(history) = 1

\* The number of commits an error carries to the caller, -1 when it carries none.
ReportedCommitted(error) ==
  IF "committed" \in DOMAIN error THEN error.committed ELSE -1

\* C7: when commit fails on draft i the failure the caller of applyAllDrafts
\* receives reports i - 1 commits created.
C7_ReportsCommitted ==
  pc = "thrown" /\ thrown.from = "commit" => ReportedCommitted(thrown) = i - 1

\* C8: cancel at the selection prompt ends the run and changes neither the
\* index nor the history, and issues no staging, unstaging or commit call.
C8_CancelMutatesNothing ==
  [][pc = "select" /\ pc' = "exit" =>
       ops' = ops /\ wt' = wt /\ history' = history /\ hasHead' = hasHead]_vars

\* C8 witness: the run was cancelled at the selection prompt.
C8_Witness ==
  pc = "exit" /\ exitCode = "0" /\ ~options.yes /\ Len(drafts) = 2 /\ shown = <<>>

\* C9 as stated: by the time the synthesizer runs, the loop is in Reviewing,
\* the synthesizer has failed or the user has cancelled, no operation changing
\* the index or the history has been issued.
C9_NothingIssuedBeforeApplying ==
  pc \in {"analyze", "select", "edit_select", "edit_text", "view_select", "regenerate",
         "exit"}
    /\ ~Applying => ops = <<>>

\* C9 amended: by then no commit, unstage or per-file stage has been issued and
\* the history is as it was; the only call issued is stageAll, and only under
\* --all or when nothing was staged at the start; without it the index is as
\* it was at the start.
C9_OnlyStageAllBeforeApplying ==
  ~Applying =>
    /\ history = <<>>
    /\ \A n \in 1..Len(ops) : ops[n] = Op("stageAll", <<>>, "")
    /\ ops # <<>> => options.all \/ stagedAtStart = <<>>
    /\ ops = <<>> /\ pc # "start" /\ isRepo => Listed(Staged(wt)) = stagedAtStart

\* C9 witness: the loop is in Reviewing after the stageAll of --all, with
\* files that were staged before the command started.
C9_Witness ==
  /\ pc = "select" /\ options.all /\ stagedAtStart # <<>>
  /\ ops = <<Op("stageAll", <<>>, "")>>

LoopPcs == {"select", "edit_select", "edit_text", "view_select", "regenerate"}

\* The drafts differ at most in the message of the draft picked for the edit.
OnlyPickedMessageChanges ==
  /\ Len(drafts') = Len(drafts)
  /\ \A k \in 1..Len(drafts) :
       /\ drafts'[k].id = drafts[k].id
       /\ drafts'[k].files = drafts[k].files
       /\ drafts'[k].message # drafts[k].message => pc = "edit_text" /\ k = selectedIndex

\* C10 as stated: a completed edit changes only the message of the picked
\* draft, and no operation of the revision loop changes the file list of a draft.
C10_LoopKeepsMembership ==
  [][(pc \in LoopPcs /\ pc' \in LoopPcs) => OnlyPickedMessageChanges]_vars

\* C10 amended: a completed edit changes only the message of the picked draft,
\* and no operation of the revision loop other than regenerate changes the
\* number, order, ids or file lists of the drafts.
C10_EditKeepsMembership ==
  [][(pc \in LoopPcs /\ pc' \in LoopPcs /\ pc # "regenerate")
       => OnlyPickedMessageChanges]_vars

\* C10 witness: the first of two drafts carries an edited message and the
\* second its own.
C10_Witness ==
  /\ pc = "select" /\ Len(drafts) = 2
  /\ drafts[1].message \in EditTexts
  /\ drafts[2].message \notin EditTexts
  /\ drafts[1].files # <<>> /\ drafts[2].files # <<>>

\* The messages the texts that are not blank make.
AcceptedMessages == {Str(value) : value \in {v \in TypedTexts : trim(v) # <<>>}}

\* C11 as stated: a cancel at the draft selection or at the text prompt, and a
\* submitted text that is empty or only whitespace, bring the loop back to
\* Reviewing with the drafts it had; an edit never stores a blank message.
C11_BlankEditBackInReviewing ==
  [][(pc \in {"edit_select", "edit_text"}) =>
       /\ (pc = "edit_select" /\ pc' # "edit_text") => (pc' = "select" /\ drafts' = drafts)
       /\ validationError' # "undefined" => (pc' = "select" /\ drafts' = drafts)
       /\ pc' \in {"edit_text", "select"}
       /\ drafts' # drafts => drafts'[selectedIndex].message \in AcceptedMessages]_vars

\* C11 amended: a cancel at the draft selection or at the text prompt brings
\* the loop back to Reviewing with the drafts it had; a submitted text that is
\* empty or only whitespace is refused by the text prompt, which stays open on
\* the same draft with the drafts as they were; an edit leaves the prompts only
\* for Reviewing, and never stores a blank message.
C11_BlankEditRefused ==
  [][(pc \in {"edit_select", "edit_text"}) =>
       /\ (pc = "edit_select" /\ pc' # "edit_text") => (pc' = "select" /\ drafts' = drafts)
       /\ validationError' # "undefined" =>
            (pc' = "edit_text" /\ drafts' = drafts /\ selectedIndex' = selectedIndex)
       /\ pc' \in {"edit_text", "select"}
       /\ drafts' # drafts => drafts'[selectedIndex].message \in AcceptedMessages]_vars

\* C11 witness: a blank text has been refused for the second of two drafts
\* and the text prompt is still open.
C11_Witness ==
  /\ pc = "edit_text" /\ validationError = "Commit message cannot be empty"
  /\ Len(drafts) = 2 /\ selectedIndex = 2
  /\ drafts[2].message \notin EditTexts

\* What changes the index or the history, or tells that the applier has run
\* or the command has ended.
Effects == <<wt, hasHead, history, ops, i, shown, thrown, exitCode>>

\* C12: when regenerate fails the error message is logged, the loop is back
\* in Reviewing with the drafts it had, edited messages included, the command
\* has not ended and nothing has been applied; a regenerate that logs nothing
\* has not failed.
C12_FailedRegenerateKeepsDrafts ==
  [][(pc = "regenerate") =>
       /\ pc' = "select"
       /\ Effects' = Effects
       /\ logged' \in {"none"} \cup {SynthErrorMessage[error] : error \in SynthErrors}
       /\ logged' # "none" => drafts' = drafts]_vars

\* C12 witness: regenerate has failed and the loop is in Reviewing with the
\* edited message of the first of two drafts.
C12_Witness ==
  /\ pc = "select" /\ logged = SynthErrorMessage["provider"]
  /\ Len(drafts) = 2 /\ drafts[1].message \in EditTexts
  /\ exitCode = "none" /\ shown = <<>> /\ history = <<>>

\* C13: with --yes no prompt is offered (no selection, edit, view, regenerate
\* or cancel): a synthesized draft set is the first one and is applied at once,
\* and the applier runs over it once.
C13_YesAppliesAtOnce ==
  options.yes =>
    /\ pc \notin LoopPcs \cup {"confirm_stage", "instructions"}
    /\ logged = "none" /\ validationError = "undefined"
    /\ drafts # <<>> =>
         /\ drafts \in SynthesizedDrafts[fileDiffs]
         /\ Applying
         /\ Len(ApplierOps) <= 3 * Len(drafts)
         /\ Len(SelectSeq(shown, LAMBDA l : l.line = "success")) <= 1
    /\ pc = "exit" /\ drafts # <<>> =>
         shown[Len(shown)] = [line |-> "success", n |-> Len(drafts), of |-> Len(drafts)]

\* C13 witness: a run with --yes has applied its two drafts and ended.
C13_Witness ==
  /\ options.yes /\ pc = "exit" /\ exitCode = "0"
  /\ Len(drafts) = 2 /\ Len(history) = 2 /\ Len(shown) = 3

ApplierPcs == {"apply_unstage", "apply_stage", "apply_commit", "thrown"}

\* C14: view_draft, edit_message and regenerate leave their prompts only for
\* Reviewing; Reviewing is left for good only by apply_all (the applier) or
\* cancel (the exit); once the applier has started or the command has ended no
\* selection is offered again, and the applier starts once and takes the
\* drafts one by one.
C14_LoopEndsByApplyOrCancel ==
  [][/\ pc \in LoopPcs \ {"select"} => pc' \in LoopPcs
     /\ pc = "select" => pc' \in LoopPcs \cup {"apply_unstage", "exit"}
     /\ pc \in ApplierPcs \cup {"exit"} => pc' \in ApplierPcs \cup {"exit"}
     /\ pc' \in ApplierPcs /\ pc \notin ApplierPcs => (i = 0 /\ i' = 1)
     /\ i' \in {i, i + 1}]_vars

\* C14 witness: after an edit, a view and a failed regenerate the loop was
\* left by apply_all, and the applier has ended.
C14_Witness ==
  /\ ~options.yes /\ pc = "exit" /\ Len(drafts) = 2
  /\ drafts[2].message \in EditTexts
  /\ shown # <<>> /\ shown[Len(shown)].line = "success"

\* A count is the number its numstat field writes: 0 for "-".
CountIs(count, field) ==
  count >= 0 /\ IF field = <<"-">> THEN count = 0 ELSE Decimal(count) = field

\* The numstat lines keyed by a path.
NumstatKeyed(path) == {n \in 1..Len(numstatLines) : numstatLines[n][3] = path}

\* The path a name-status line reports: the new path of a rename.
PathOf(parts) == IF Len(parts) = 3 THEN parts[3] ELSE parts[2]

\* The name-status lines reporting a path, and those renaming it away.
NameStatusOf(path) == {n \in 1..Len(nameStatusLines) : PathOf(nameStatusLines[n]) = path}
RenamedAway(path) ==
  {n \in 1..Len(nameStatusLines) :
     Len(nameStatusLines[n]) = 3 /\ nameStatusLines[n][2] = path}

\* The returned records carrying a path.
RecordsOf(path) == {n \in 1..Len(changedFiles) : changedFiles[n].path = path}

\* r is reported as a rename, on the one name-status line for its new path.
ReportedRename(r) ==
  /\ Cardinality(NameStatusOf(r[2])) = 1
  /\ \A n \in NameStatusOf(r[2]) :
       nameStatusLines[n] = <<<<"R", "1", "0", "0">>, r[1], r[2]>>

\* The one record for path carries the counts of numstat line n and the status.
OneRecord(path, n, status) ==
  /\ Cardinality(RecordsOf(path)) = 1
  /\ \A k \in RecordsOf(path) :
       /\ CountIs(changedFiles[k].additions, numstatLines[n][1])
       /\ CountIs(changedFiles[k].deletions, numstatLines[n][2])
       /\ changedFiles[k].status = status

\* C15: for a rename whose one numstat line is keyed by the new path, the
\* result has exactly one record with the new path, and it carries the counts
\* of that line and the status renamed.
C15_RenameKeyedByNewPath ==
  pc = "stats_done" =>
    \A r \in RenamePairs :
      ReportedRename(r) /\ Cardinality(NumstatKeyed(r[2])) = 1 =>
        \A n \in NumstatKeyed(r[2]) : OneRecord(r[2], n, "renamed")

\* C15 witness: numstat (3, 1, a.ts) with name-status (R100, old.ts, a.ts)
\* has given the one record a.ts, 3, 1, renamed.
C15_Witness ==
  /\ pc = "stats_done"
  /\ numstatLines = <<<<<<"3">>, <<"1">>, "a.ts">>>>
  /\ nameStatusLines = <<<<<<"R", "1", "0", "0">>, "old.ts", "a.ts">>>>
  /\ changedFiles =
       <<[path |-> "a.ts", additions |-> 3, deletions |-> 1, status |-> "renamed"]>>

\* C16: for a rename whose one numstat line is keyed by the old path (no line
\* by the new one, no other name-status line for the old path) the result has
\* exactly one record with the new path, carrying the counts of that line and
\* the status renamed, and no record with the old path; a path that only the
\* name-status output reports, on one line, that no line renames away, and
\* whose old path, if it is a rename, no line reports and no numstat line is
\* keyed by, has exactly one record, with additions 0, deletions 0 and its
\* status.
C16_RenameKeyedByOldPath ==
  pc = "stats_done" =>
    /\ \A r \in RenamePairs :
         (/\ ReportedRename(r)
          /\ Cardinality(NumstatKeyed(r[1])) = 1
          /\ NumstatKeyed(r[2]) = {}
          /\ NameStatusOf(r[1]) = {})
         => /\ \A n \in NumstatKeyed(r[1]) : OneRecord(r[2], n, "renamed")
            /\ RecordsOf(r[1]) = {}
    /\ \A n \in 1..Len(nameStatusLines) :
         LET parts == nameStatusLines[n]
         IN (/\ NameStatusOf(PathOf(parts)) = {n}
             /\ RenamedAway(PathOf(parts)) = {}
             /\ NumstatKeyed(PathOf(parts)) = {}
             /\ Len(parts) = 3 =>
                  NumstatKeyed(parts[2]) = {} /\ NameStatusOf(parts[2]) = {})
            => /\ Cardinality(RecordsOf(PathOf(parts))) = 1
               /\ \A k \in RecordsOf(PathOf(parts)) :
                    changedFiles[k] =
                      [path |-> PathOf(parts), additions |-> 0, deletions |-> 0,
                       status |-> StatusOf(Head(parts[1]))]

\* C16 witness: numstat (12, 1, old.ts) with name-status (R100, old.ts, a.ts)
\* has given the one record a.ts, 12, 1, renamed.
C16_Witness ==
  /\ pc = "stats_done"
  /\ numstatLines = <<<<<<"1", "2">>, <<"1">>, "old.ts">>>>
  /\ nameStatusLines = <<<<<<"R", "1", "0", "0">>, "old.ts", "a.ts">>>>
  /\ changedFiles =
       <<[path |-> "a.ts", additions |-> 12, deletions |-> 1, status |-> "renamed"]>>

\* The changed file a numstat line is about: the new path of the rename it
\* writes, or of the rename whose old path it is keyed by.
FileOf(path) ==
  IF \E r \in RenamePairs : path = pprint_rename(r[1], r[2])
    THEN (CHOOSE r \in RenamePairs : path = pprint_rename(r[1], r[2]))[2]
  ELSE IF RenamedAway(path) # {}
    THEN PathOf(nameStatusLines[CHOOSE n \in RenamedAway(path) : TRUE])
  ELSE path

\* The two outputs describe the same changed files, each on one line, and a
\* numstat line that writes a rename is about a rename name-status reports.
SameChangedFiles ==
  /\ \A n \in 1..Len(nameStatusLines) :
       /\ NameStatusOf(PathOf(nameStatusLines[n])) = {n}
       /\ RenamedAway(PathOf(nameStatusLines[n])) = {}
  /\ \A n \in 1..Len(numstatLines) : \A r \in RenamePairs :
       numstatLines[n][3] = pprint_rename(r[1], r[2]) => ReportedRename(r)
  /\ \A n, k \in 1..Len(numstatLines) :
       FileOf(numstatLines[n][3]) = FileOf(numstatLines[k][3]) => n = k
  /\ {FileOf(numstatLines[n][3]) : n \in 1..Len(numstatLines)} =
       {PathOf(nameStatusLines[n]) : n \in 1..Len(nameStatusLines)}

\* C17: when the two outputs describe the same changed files, renames
\* included, the result has exactly one record per changed file: no two
\* records carry the same path, every changed file has a record, no record is
\* for another path, and every count is a non-negative integer.
C17_OneRecordPerChangedFile ==
  pc = "stats_done" /\ SameChangedFiles =>
    /\ \A n, k \in 1..Len(changedFiles) :
         changedFiles[n].path = changedFiles[k].path => n = k
    /\ {changedFiles[n].path : n \in 1..Len(changedFiles)} =
         {PathOf(nameStatusLines[n]) : n \in 1..Len(nameStatusLines)}
    /\ \A n \in 1..Len(changedFiles) :
         changedFiles[n].additions >= 0 /\ changedFiles[n].deletions >= 0

\* C18: a numstat field "-" gives the count 0, additions and deletions each
\* on its own, and any other field gives the number it writes (numstat lines
\* keyed by different paths: the k-th record is of the k-th line).
C18_BinaryCountsAreZero ==
  pc = "stats_done"
    /\ (\A n, k \in 1..Len(numstatLines) :
          numstatLines[n][3] = numstatLines[k][3] => n = k)
    => \A n \in 1..Len(numstatLines) :
         /\ CountIs(changedFiles[n].additions, numstatLines[n][1])
         /\ CountIs(changedFiles[n].deletions, numstatLines[n][2])

\* C18 witness: the lines (-, -, a.ts) and (-, 1, old.ts) have given a.ts
\* with 0 and 0 and old.ts with 0 and 1.
C18_Witness ==
  /\ pc = "stats_done"
  /\ numstatLines = <<<<<<"-">>, <<"-">>, "a.ts">>, <<<<"-">>, <<"1">>, "old.ts">>>>
  /\ nameStatusLines = <<>>
  /\ changedFiles =
       <<[path |-> "a.ts", additions |-> 0, deletions |-> 0, status |-> "modified"],
         [path |-> "old.ts", additions |-> 0, deletions |-> 1, status |-> "modified"]>>

\* The content lines of a file: the lines a line feed ends, and the last line
\* if none ends it.
ContentLines(text) ==
  Cardinality({n \in 1..Len(text) : text[n] = "\n"})
    + IF text # <<>> /\ text[Len(text)] # "\n" THEN 1 ELSE 0

\* C19: the record composeCommand makes for an untracked file of n >= 1
\* content lines has status added, deletions 0 and additions n: one per
\* content line of the pseudo-diff, its header lines not counted.
C19_AdditionsAreContentLines ==
  pc = "untracked_done" /\ ContentLines(content) >= 1 =>
    stats = [path |-> "x", additions |-> ContentLines(content), deletions |-> 0,
             status |-> "added"]

\* The parsed reply has a drafts field and it is a list.
HasDraftList ==
  IF "drafts" \in DOMAIN parsed THEN parsed.drafts.type = "array" ELSE FALSE

\* C20: a parsed reply without a drafts field, or whose drafts field is not a
\* list, makes analyzeChangesForComposer throw and return no draft; the
\* fallback draft is made only for a reply whose drafts field is an empty list.
C20_NoDraftListIsAnError ==
  pc \in {"synth_done", "synth_thrown"} =>
    /\ ~HasDraftList =>
         /\ pc = "synth_thrown"
         /\ thrown # NoError
         /\ analysis = <<>> /\ drafts = <<>>
    /\ (\E k \in 1..Len(analysis) : analysis[k].message = "chore: miscellaneous changes") =>
         /\ pc = "synth_done"
         /\ HasDraftList
         /\ parsed.drafts.items = <<>>

\* C20 witness: the call has thrown for a reply that has no drafts field.
C20_Witness ==
  /\ pc = "synth_thrown"
  /\ "drafts" \notin DOMAIN parsed
  /\ thrown.from = "analyzeChangesForComposer"
  /\ analysis = <<>>

\* Whether the error of a reply signals an authentication failure.
SignalsAuth(error) ==
  error.present /\ (error.code = "provider_auth_error" \/ error.type = "auth_error")

\* How a composer request that got the reply r fails: "none" if it returns.
FailureKind(r) ==
  IF r.error.present THEN (IF SignalsAuth(r.error) THEN "auth" ELSE "provider")
  ELSE IF ResponseText[r] = <<>> THEN "empty"
  ELSE IF ParseError[r] # "none" THEN "parse"
  ELSE "none"

\* The four ways a composer request fails on a reply, and the messages each
\* way gives over all replies.
FailureKinds == {"auth", "provider", "empty", "parse"}
FailureMessages ==
  [kind \in FailureKinds |->
     {ComposerFailure[r] : r \in {x \in Results : x.data /\ FailureKind(x) = kind}}]

ComposerFailed ==
  pc = "request_failed" /\ request = "analyzeChangesForComposer" /\ result.data

\* C21: a composer request whose reply signals an authentication failure
\* throws the authentication message, a request that fails otherwise (other
\* provider error, empty reply, unparsable reply) never throws it, and the
\* message thrown is one that no reply failing in another of the four ways
\* gives.
C21_FailureKindsAreDistinct ==
  ComposerFailed =>
    /\ SignalsAuth(result.error)
         <=> thrown.message
               = "Authentication failed for provider opencode. Please check your credentials."
    /\ \A kind \in FailureKinds \ {FailureKind(result)} :
         thrown.message \notin FailureMessages[kind]

\* An authentication failure whose code and message are those of another error.
C21_Witness ==
  /\ ComposerFailed
  /\ result.error.type = "auth_error"
  /\ result.error.code = "rate_limited"
  /\ result.error.message = "quota exceeded"

\* C22: when a request has returned or failed, the session it created is
\* deleted, and no session got the prompts of two requests.
C22_SessionDeletedAtEnd ==
  /\ pc \in {"request_returned", "request_failed"} => sessions = {}
  /\ \A a, b \in 1..Len(prompts) :
       prompts[a].session = prompts[b].session => prompts[a].request = prompts[b].request

\* C23: the process never has two spawned servers running, and when it has
\* ended (normal exit, signal, or an exit taken inside getClient) no server
\* it spawned is left running.
C23_ServerClosedAtExit ==
  /\ Cardinality(servers) <= 1
  /\ pc = "exited" => servers = {}

\* Whether some line of the text starts with "diff --git " or with "--- ".
HasDiffHeader(text) ==
  \E k \in LineStarts(text) :
    StartsAt(text, k, DiffGit) \/ StartsAt(text, k, <<"-", "-", "-", " ">>)

\* C24: when the reply is empty or has no line that starts with "diff --git "
\* or with "--- ", maybeDeslopStagedChanges calls no applyPatch, reports no
\* error and returns "continue".
C24_NoHeaderMeansContinue ==
  (pc = "deslop_done" /\ deslopResult # NoDeslopResult
     /\ ~HasDiffHeader(deslopResult.patch))
    => returned = "continue" /\ ops = <<>> /\ logged = "none"

C26_RevertOfNothingIsReported ==
  \A n \in 1..Len(ops) :
    (ops[n].op = "revert" /\ ~ops[n].inPlace)
      => ~ops[n].ok /\ (pc = "deslop_done" => logged = NothingToRevert)

\* C27: when the workflow has returned after an apply of cleanup changes, the
\* staged files are the files that were staged before it started.
C27_StagedSetKept ==
  (pc = "deslop_done" /\ ops # <<>>) => StagedIn(tree) = {d[1] : d \in stagedDiff}

\* What a file defines for a task: nothing if it is missing or malformed.
DefinedBy(file, task) == IF file.kind = "object" THEN file.config[task] ELSE NoSelection

\* The model of the first source that defines the task: override, repository
\* file (in a repository), global file, default.
FirstDefined(task) ==
  IF flags[task] # NoSelection THEN flags[task]
  ELSE IF isRepo /\ DefinedBy(modelFiles.repo, task) # NoSelection
    THEN DefinedBy(modelFiles.repo, task)
  ELSE IF DefinedBy(modelFiles.global, task) # NoSelection
    THEN DefinedBy(modelFiles.global, task)
  ELSE DEFAULT_MODELS[task]

\* C28: resolveModelConfig returns, and for each task the model it returns is
\* the one of the first source that defines the task, a missing or malformed
\* file defining nothing.
C28_FirstDefinedSourceWins ==
  pc # "config_call"
    => pc = "config_done" /\ \A task \in Tasks : resolved[task] = FirstDefined(task)

\* The step is an unrecoverable failure: the run started outside a repository,
\* the first analysis threw, or the applier threw.
UnrecoverableFailure ==
  \/ pc = "start" /\ ~isRepo
  \/ pc = "analyze" /\ pc' = "exit"
  \/ pc' = "thrown"

\* The step ends the run.
EndsRun == pc \notin {"exit", "thrown"} /\ pc' \in {"exit", "thrown"}

ExitCodeOfStep == EndsRun => exitCode' = IF UnrecoverableFailure THEN "1" ELSE "0"

\* C29: composeCommand ends with exit code 1 on every unrecoverable failure
\* (not a repository, failure of the first analysis, failure while applying
\* drafts), and with exit code 0 when there is nothing to compose, when the
\* user declines or cancels, and after all drafts were applied.
C29_ExitCodes == [][ExitCodeOfStep]_vars

\* C30: in every state of the selection prompt, whatever edit_message,
\* view_draft and regenerate steps (failed or not) led to it, every input
\* file is in a draft of the current list, and every call of the synthesizer
\* so far, the first and each regenerate, had the same file list and the same
\* instructions.
C30_ReviewingStaysConsistent ==
  pc = "select" =>
    /\ Range(fileDiffs) \subseteq AllFilesInDrafts(drafts)
    /\ synthCalls = {FirstCall(fileDiffs, instructions)}

\* C30 witness: the selection prompt after a message was edited and a
\* regenerate then failed, in a run with instructions and two input files.
C30_Witness ==
  /\ pc = "select"
  /\ logged = SynthErrorMessage.provider
  /\ \E k \in 1..Len(drafts) : drafts[k].message = "edited"
  /\ instructions # NoInstructions
  /\ Len(fileDiffs) = 2
  /\ synthCalls # {}

\* The run starts where there is nothing to compose: outside a repository,
\* or in one without a staged, unstaged or untracked change.
NothingToCompose == pc = "start" /\ (~isRepo \/ ~hasChanges(getStatus(wt)))

EndsUntouched ==
  /\ pc' = "exit"
  /\ ops' = <<>>
  /\ wt' = wt
  /\ history' = <<>>
  /\ synthCalls' = {}

\* C31: outside a repository, or in a repository without any change,
\* composeCommand ends at once: no staging, unstaging or commit operation is
\* issued, the index and the history are as they were and the synthesizer is
\* not called, with --all or without it.
C31_NothingToComposeIssuesNothing == [][NothingToCompose => EndsUntouched]_vars

\* C31 witness: a run with --all in a repository without changes has ended
\* with no operation issued.
C31_Witness ==
  /\ pc = "exit"
  /\ isRepo
  /\ options.all
  /\ wt = AllClean
  /\ history = <<>>
  /\ ops = <<>>
  /\ synthCalls = {}
  /\ exitCode = "0"

\* The run is one of the version that gets a session from runDeslopEdits.
WithSession == deslopSession # NoDeslopSession

\* The cleanup changes are in place: no revert was made.
ChangesKept ==
  IF WithSession
    THEN deslopSession.inPlace /\ \A n \in 1..Len(ops) : ops[n].op # "revert"
    ELSE ops = <<Applied(FALSE, TRUE)>>

\* The cleanup changes were taken back.
ChangesReverted ==
  IF WithSession
    THEN ~deslopSession.inPlace /\ WorkOf(tree) = deslopSession.before
    ELSE /\ ops = <<Applied(FALSE, TRUE), Applied(TRUE, TRUE)>>
         /\ getStagedDiff(tree) = stagedDiff

\* With --yes: the cleanup changed the staged diff.
AppliedWithYes ==
  /\ options.yes
  /\ IF WithSession THEN getStagedDiff(tree) \notin {{}, stagedDiff}
     ELSE ops # <<>> /\ ops[1] = Applied(FALSE, TRUE)

\* C32: when maybeDeslopStagedChanges has returned without reporting an
\* error, after the keep/reject prompt: on accept it returned "updated" and
\* the changes are kept; on reject it returned "continue" and on a cancelled
\* prompt "abort", the changes reverted in both cases. With --yes and applied
\* changes it returned "updated", the changes are kept and the prompt was not
\* shown.
C32_ReviewOutcomes ==
  (pc = "deslop_done" /\ logged = "none") =>
    /\ action = "accept" => returned = "updated" /\ ChangesKept
    /\ action = "reject" => returned = "continue" /\ ChangesReverted
    /\ action = "cancel" => returned = "abort" /\ ChangesReverted
    /\ AppliedWithYes => returned = "updated" /\ ChangesKept /\ action = "none"
    /\ action # "none" => ~options.yes

\* C32 witness: the prompt was cancelled after the patch of two paths was
\* applied, and the patch was applied in reverse.
C32_Witness ==
  /\ pc = "deslop_done"
  /\ logged = "none"
  /\ action = "cancel"
  /\ returned = "abort"
  /\ ~WithSession
  /\ ChangesReverted
  /\ Cardinality(ParsedPatch[deslopResult.patch]) = 2

\* The nth call is an apply, a reverse apply or a revert that failed.
FailedChange(n) == ops[n].op \in {"applyPatch", "revert"} /\ ~ops[n].ok

\* C33: when an apply, a reverse apply or a revert has failed, no revert,
\* re-staging or apply is called after it (the session may still be closed),
\* and once maybeDeslopStagedChanges has returned, it returned "abort" with
\* the error shown.
C33_FailureLeavesEditsAlone ==
  \A n \in 1..Len(ops) :
    FailedChange(n) =>
      /\ \A m \in (n + 1)..Len(ops) : ops[m].op = "close"
      /\ pc = "deslop_done" => returned = "abort" /\ logged # "none"

\* A draft of the reply has no message, or no files.
LacksField(d) == d.message = Undefined \/ "files" \notin DOMAIN d

\* C34: a reply in which a draft has no message or no files makes
\* analyzeChangesForComposer throw, and no list of drafts is made from it; no
\* draft without a message is in the list composeCommand gets.
C34_IncompleteDraftIsRejected ==
  pc \in {"synth_done", "synth_thrown"} =>
    /\ (\E k \in 1..Len(reply) : LacksField(reply[k])) =>
         /\ pc = "synth_thrown"
         /\ thrown.from = "analyzeChangesForComposer"
         /\ drafts = <<>>
    /\ \A k \in 1..Len(drafts) : drafts[k].message # Undefined

\* The parts of one type, and the joined texts of the text parts.
PartsOfType(parts, types) == SelectSeq(parts, LAMBDA part : part.type \in types)

TextOfTextParts(parts) ==
  trim(JoinTexts([n \in 1..Len(PartsOfType(parts, {"text"}))
                    |-> PartsOfType(parts, {"text"})[n].text]))

\* The reply of the request has been read.
ReplyRead == pc \in {"session_deleted", "request_returned", "request_failed"} /\ result.data

\* C35: the extracted text is the trimmed concatenation of the text parts when
\* that is not blank, and else what the reasoning parts alone give; it is the
\* same without the parts of other types. A request whose extracted text is
\* empty does not return: it fails with the error of an empty reply.
C35_TextThenReasoning ==
  ReplyRead =>
    /\ ResponseText[result] =
         IF TextOfTextParts(result.parts) # <<>> THEN TextOfTextParts(result.parts)
         ELSE extractTextFromParts(PartsOfType(result.parts, {"reasoning"}))
    /\ ResponseText[result]
         = extractTextFromParts(PartsOfType(result.parts, {"text", "reasoning"}))
    /\ pc = "request_returned" => ResponseText[result] # <<>>
    /\ (/\ pc = "request_failed"
        /\ ResponseText[result] = <<>>
        /\ ~(request = "analyzeChangesForComposer" /\ result.error.present))
         => thrown.message = EmptyMessage[request]

\* C35 witness: a request returned the words of a reasoning part; the part
\* before it, of another type, carries a text that is not in the result.
C35_Witness ==
  /\ pc = "request_returned"
  /\ Len(result.parts) = 2
  /\ result.parts[1].type = "tool"
  /\ result.parts[1].text = <<"n", "o">>
  /\ result.parts[2].type = "reasoning"
  /\ ResponseText[result] = ValidReplyText

\* The applier is at one of its three steps for draft i.
ApplierAtStep == pc \in {"apply_unstage", "apply_stage", "apply_commit"}

\* C36: every draft the applier processes has at least one file, and commit is
\* never called on an index that holds nothing.
C36_NoEmptyDraftApplied ==
  /\ ApplierAtStep => drafts[i].files # <<>>
  /\ pc = "apply_commit" => Staged(wt) # {}

\* The positions in the noted calls of the calls of one name.
CallsOf(name) == {n \in 1..Len(ops) : ops[n].op = name}

\* C37: with a session, revert is called at most once, and only on a session
\* that runDeslopEdits returned.
C37_RevertAtMostOnce ==
  /\ Cardinality(CallsOf("revert")) <= 1
  /\ CallsOf("revert") # {} => deslopSession # NoDeslopSession

\* C39: when the workflow has returned and runDeslopEdits had returned a
\* session, close() was called on the session exactly once, and it is the last
\* call; while the workflow runs, close() has not been called.
C39_ClosedExactlyOnce ==
  /\ (pc = "deslop_done" /\ deslopSession # NoDeslopSession) =>
       /\ Cardinality(CallsOf("close")) = 1
       /\ ops[Len(ops)].op = "close"
       /\ ~deslopSession.open
  /\ pc # "deslop_done" => CallsOf("close") = {}

\* C39 witness: a session was closed once after an error raised by the
\* re-staging that follows a revert.
C39_Witness ==
  /\ pc = "deslop_done"
  /\ logged = GitError("stageFiles").message
  /\ action = "reject"
  /\ Cardinality(CallsOf("close")) = 1
  /\ Cardinality(CallsOf("revert")) = 2

\* A call of cleanup() that changes something: the one step that leaves the
\* process idle and changes a handle or the servers.
CleanupStep ==
  /\ pc = "client_idle" /\ pc' = "client_idle"
  /\ <<clientInstance, serverInstance, servers>>' # <<clientInstance, serverInstance, servers>>

\* A getClient call that finds no client kept goes on to make one.
GetClientStep == pc = "client_idle" /\ pc' = "client_connect"

\* What cleanup() and the getClient calls around it do in one step.
CleanupThenNewClient ==
  /\ CleanupStep =>
       /\ clientInstance' = 0 /\ serverInstance' = 0
       /\ servers' = IF serverInstance = 0 THEN servers ELSE servers \ {serverInstance}
       /\ servers \ servers' \subseteq 1..spawned
       /\ environment' = environment
       /\ Closed' = servers'
  /\ GetClientStep => clientInstance = 0
  /\ (clientInstance' # clientInstance /\ clientInstance' # 0) =>
       /\ clientInstance = 0
       /\ clientInstance' = clients + 1
       /\ clients' = clients + 1

\* C38: cleanup() closes the server this process spawned and no other (the
\* server a client was connected to keeps listening), leaves both handles
\* null, changes nothing when called again, and the client a later getClient
\* call keeps is a new one.
C38_CleanupDropsHandles == [][CleanupThenNewClient]_vars

\* C38 witness: after a cleanup that closed the first spawned server, getClient
\* has spawned a second server and keeps a second client.
C38_Witness ==
  /\ pc = "client_idle"
  /\ spawned = 2 /\ servers = {2}
  /\ clientInstance = 2 /\ serverInstance = 2

====
